---- MODULE Spec2Model ----
(***************************************************************************)
(* Model of redbox: S3Box (s3box/s3box.go) buffers rows and flushes them   *)
(* to S3, then partitions the produced files into manifests; Redbox        *)
(* (redbox.go) wraps an S3Box with the shipped / shippingInProgress flags  *)
(* and the transactional COPY into Redshift.                               *)
(*                                                                         *)
(* Callers are goroutines.  Each call is a sequence of steps, one step per *)
(* lock acquisition, external call or unsynchronised access, so that every *)
(* interleaving the Go scheduler allows is an interleaving of the model.   *)
(***************************************************************************)
EXTENDS Integers, Sequences, FiniteSets, TLC

\* ---------------------------------------------------------------- bounds
\* Total number of calls issued over the life of one box by concurrent callers.
MaxCalls == 3
\* Total number of calls issued over the life of one box by a single caller.
MaxCallsSeq == 4
\* Largest row, in bytes, handed to Pack.
MaxRowLen == 4
\* Largest nManifests a caller asks for.
MaxManifests == 2
\* Number of distinct manifest slugs (distinct seconds of time.Now()).
MaxSlug == 2
\* The configured Options.BufferSize, in bytes.
BufferSize == 4

\* Largest number of columns of a table configuration.
MaxColumns == 2
\* Largest sort ordinal of a column.
MaxSortOrd == 2

\* The goroutines that may call into the box.
Procs == {1, 2}
NoProc == 0

\* The '\n' byte Pack appends; every other byte of a row is >= 1.
NL == 0

\* error values
Nil == "nil"
ErrBoxIsShipped == "errBoxIsShipped"
ErrWrite == "errWriteToS3"
ErrBoxShipped == "errBoxShipped"
ErrShippingInProgress == "errShippingInProgress"
ErrInvalidJSONInput == "errInvalidJSONInput"
ErrNothingToShip == "errNothingToShip"
ErrDB == "errRedshift"
ErrIncompleteTableName == "ErrIncompleteTableName"
ErrInvalidDataTimestamp == "ErrInvalidDataTimestamp"
ErrMultipleDistKeys == "ErrMultipleDistKeys"
ErrInvalidSortOrds == "ErrInvalidSortOrds"
ErrUnsupportedType == "ErrUnsupportedType"
ErrUnsupportedGranularity == "ErrUnsupportedGranularity"
ErrSendingInProgress == "ErrSendingInProgress"
ErrPipeIsSealed == "ErrPipeIsSealed"
ErrPipeIsClosed == "ErrPipeIsClosed"
ErrNoJobEndpoint == "ErrNoJobEndpoint"
ErrPackageNotSealed == "ErrPackageNotSealed"
ErrInvalidConfig == "errValidate"
ErrPost == "errPostJob"
ErrClosing == "Error closing pipe"

VARIABLES
  \* S3Box fields
  sbMt,            \* holder of S3Box.mt (NoProc when free)
  bufferedData,    \* S3Box.bufferedData
  fileLocations,   \* S3Box.fileLocations (file keys, in append order)
  isShipped,       \* S3Box.isShipped
  \* the bucket
  s3Data,          \* data objects: file key -> bytes
  s3Manifests,     \* manifest objects: manifest name -> entries
  \* Redbox fields
  shippingInProgress, shipped, truncate, nManifests,
  \* Redshift
  dbCalls,         \* per caller: the calls its current/last Ship made on the connection
  nCommits,        \* committed transactions
  loaded,          \* file keys loaded by committed transactions, in load order
  clock,           \* time.Now(), in seconds
  \* synchronisation order of the unsynchronised read of isShipped
  knows, relSb, relRb,
  \* goroutines
  pc, lv, panicked,
  \* observation of the calls
  callers, result, okPacked, calls, nextId, pre, hist, shipOK, shipRefs, shipFailed,
  \* a table configuration and what Validate returned for it
  config, validated,
  \* the Redbox of the Send / Seal / Close generation: its fields
  rpBufferedData, rpFileNumber, rpFileLocations, rpIsSealed, rpTimestamp,
  rpIsClosed, rpSendingInProgress,
  rpJobEndpoint,   \* rp.jobEndpoint is not empty
  \* its bucket, the jobs posted (each the bytes it loads), time.Now(), and the
  \* data objects written, in the order of the writes
  rpS3, rpManifests, rpJobs, rpNow, rpWrites,
  \* its callers: their position, locals and last result, the rows accepted since
  \* the box was new or reset
  rpPc, rpLv, rpResult, rpCallers, rpPre, rpCalls, rpNextId, rpOkPacked

sbVars == <<sbMt, bufferedData, fileLocations, isShipped>>
s3Vars == <<s3Data, s3Manifests>>
rbVars == <<shippingInProgress, shipped, truncate, nManifests>>
dbVars == <<dbCalls, nCommits, loaded>>
hbVars == <<knows, relSb, relRb>>
obsVars == <<callers, result, okPacked, calls, nextId, pre, hist, shipOK, shipRefs,
            shipFailed>>
boxVars == <<sbVars, s3Vars, rbVars, dbVars, clock, hbVars, pc, lv, panicked, obsVars>>
validateVars == <<config, validated>>
\* What the calls on a Redbox and its S3Box leave alone.
rpBoxVars == <<rpBufferedData, rpFileNumber, rpFileLocations, rpIsSealed, rpTimestamp>>
rpFlagVars == <<rpIsClosed, rpSendingInProgress, rpJobEndpoint>>
rpEnvVars == <<rpS3, rpManifests, rpJobs, rpNow, rpWrites>>
rpObsVars == <<rpCallers, rpPre, rpCalls, rpNextId, rpOkPacked>>
pipeVars == <<rpBoxVars, rpFlagVars, rpEnvVars, rpObsVars, rpPc, rpLv, rpResult>>
extVars == <<validateVars, pipeVars>>
vars == <<boxVars, extVars>>

\* ---------------------------------------------------------------- helpers

\* A row of len bytes; its bytes carry the id of the call that packs it.
Row(id, len) == [i \in 1..len |-> id]

NoLocals ==
  [op |-> "none", row |-> <<>>, json |-> "none", oldBuffer |-> <<>>, err |-> Nil,
   slug |-> 0, n |-> 0, manifests |-> <<>>, names |-> <<>>, mi |-> 0,
   retTo |-> "none", via |-> "none", txLoads |-> <<>>]

\* What a call returned, with the arguments it was given (the arguments are
\* kept only for a single caller, whose calls follow one another).
NoResult ==
  [op |-> "none", err |-> Nil, manifests |-> <<>>, n |-> 0,
   row |-> <<>>, json |-> "none", slug |-> 0]

Range(f) == {f[x] : x \in DOMAIN f}

\* data = append(data, '\n')
AppendNewlineOmitted(data) == data
AppendNewline(data) == Append(data, NL)

\* sync.Mutex.Lock returns only when no goroutine holds the mutex.
LockFreeNoMutex(m) == TRUE
LockFree(m) == m = NoProc

\* The store: put replaces whatever the key held.
EmptyStore == [k \in {} |-> <<>>]
Put(store, k, v) == [x \in (DOMAIN store) \cup {k} |-> IF x = k THEN v ELSE store[x]]

\* if len(sb.bufferedData) > sb.bufferSize
OverflowsAtThreshold(buf) == Len(buf) >= BufferSize
Overflows(buf) == Len(buf) > BufferSize

\* oldBuffer := sb.bufferedData, taken before the appends.
OldBufferAfterAppend(before, after) == after
OldBuffer(before, after) == before

\* if err := sb.dumpToS3(); err != nil { sb.bufferedData = oldBuffer }
BufferAfterFlushKeepsAppend(old, cur, err) == cur
BufferAfterFlush(old, cur, err) == IF err # Nil THEN old ELSE cur

\* dumpToS3 after writeToS3 returned: sb.bufferedData = []byte{} and
\* sb.fileLocations = append(sb.fileLocations, fileName), only if the write succeeded.
DumpedBufferKept(buf, ok) == buf
DumpedBuffer(buf, ok) == IF ok THEN <<>> ELSE buf
\* fileNumber := len(sb.fileLocations); the key of the file is made of sb.timestamp,
\* which is set by NewS3Box and never written again, and of this number.
FileNumberOfLast(locs) == IF Len(locs) = 0 THEN 0 ELSE Len(locs) - 1
FileNumber(locs) == Len(locs)
DumpedLocationsAlways(locs, ok) == Append(locs, FileNumber(locs))
DumpedLocations(locs, ok) == IF ok THEN Append(locs, FileNumber(locs)) ELSE locs

\* if len(sb.bufferedData) == 0 { return nil }
DumpIsNoOpNever(buf) == FALSE
DumpIsNoOp(buf) == Len(buf) = 0

\* if nManifests > len(sb.fileLocations) { nManifests = len(sb.fileLocations) }
ClampManifestsNever(n, locs) == n
ClampManifests(n, locs) == IF n > Len(locs) THEN Len(locs) ELSE n

\* The entries of manifest j (0-based) of n: the files at the indices i with i % n = j.
IndicesOfFirstOnly(locs, n, j) ==
  IF j = 0 THEN [i \in 1..Len(locs) |-> i - 1] ELSE <<>>
IndicesOf(locs, n, j) ==
  SelectSeq([i \in 1..Len(locs) |-> i - 1], LAMBDA i : i % n = j)
ManifestEntries(locs, n, j) ==
  LET ix == IndicesOf(locs, n, j) IN [k \in 1..Len(ix) |-> locs[ix[k] + 1]]

\* A partition that deals the files in contiguous blocks and forgets the remainder.
PartitionBlocks(locs, n) ==
  [j \in 1..n |-> SubSeq(locs, (j - 1) * (Len(locs) \div n) + 1, j * (Len(locs) \div n))]
\* manifests := make([]entries, nManifests); for i, fileName := range sb.fileLocations { ... }
Partition(locs, n) == [j \in 1..n |-> ManifestEntries(locs, n, j - 1)]

\* manifestName := fmt.Sprintf("%s_%d.manifest", manifestSlug, i)
ManifestName(slug, i) == <<slug, i>>
ManifestNames(slug, n) == [j \in 1..n |-> ManifestName(slug, j - 1)]

\* make([]entries, n) panics for n < 0; i % nManifests panics for nManifests = 0.
PartitionPanics(n, locs) == n < 0 \/ (n = 0 /\ Len(locs) > 0)

\* The unsynchronised read of sb.isShipped in Pack races with the write in
\* CreateManifests: a goroutine that has not synchronised with the writer since
\* the write may still read the old value.
ReadIsShipped(p) == IF isShipped /\ p \notin knows THEN {TRUE, FALSE} ELSE {isShipped}

\* Acquiring a mutex orders the goroutine after every earlier release of it.
KnowsAfterAcquire(p, rel) == IF rel THEN knows \cup {p} ELSE knows

\* ---------------------------------------------------------------- S3Box

\* Goroutine p is at the given step; a panic has ended the program.
At(p, label) == ~panicked /\ pc[p] = label

\* Goroutine q is inside Ship between setShippingInProgress(true) and the
\* deferred setShippingInProgress(false).
ShipInFlight(q) ==
  /\ lv[q].op = "rbShip"
  /\ pc[q] \in {"cmLock", "sbDump", "cmPartition", "cmUpload", "cmFinish", "dbBegin",
                "dbTruncate", "dbCopy", "dbCommit", "shipMark", "shipClear"}

\* Goroutine q is inside Ship past both admission checks.
ShipAdmitted(q) == (lv[q].op = "rbShip" /\ pc[q] = "shipSetFlag") \/ ShipInFlight(q)

CallLimit == IF Cardinality(callers) = 1 THEN MaxCallsSeq ELSE MaxCalls

\* What a call observes when it starts (the snapshot of the box is taken only
\* for a single caller, whose calls do not overlap); the result of the caller's
\* previous call is forgotten.
StartOfCall(p) ==
  /\ At(p, "idle")
  /\ p \in callers
  /\ calls < CallLimit
  /\ calls' = calls + 1
  /\ pre' = IF Cardinality(callers) = 1
            THEN [pre EXCEPT ![p] = [buf |-> bufferedData, locs |-> fileLocations,
                                     data |-> s3Data, man |-> s3Manifests,
                                     prev |-> result[p]]]
            ELSE pre
  /\ result' = [result EXCEPT ![p] = NoResult]
  /\ dbCalls' = [dbCalls EXCEPT ![p] = <<>>]
  /\ hist' = [hist EXCEPT ![p] =
                [writeFailed |-> FALSE, marked |-> FALSE,
                 afterShip |-> shipOK > 0,
                 afterFail |-> shipFailed.failed,
                 afterManifests |-> isShipped,
                 during |-> {q \in Procs \ {p} : ShipInFlight(q)}]]

\* The record of a call that returns (err, names).
ResultOf(p, err, names) ==
  [op |-> lv[p].op, err |-> err, manifests |-> names, n |-> lv[p].n,
   row |-> IF Cardinality(callers) = 1 THEN lv[p].row ELSE <<>>,
   json |-> IF Cardinality(callers) = 1 THEN lv[p].json ELSE "none",
   slug |-> IF Cardinality(callers) = 1 THEN lv[p].slug ELSE 0]

\* Ship after CreateManifests returned: its error, or errNothingToShip for no
\* manifests, or on to copyToRedshift.
ShipAfterCreateManifestsNoCheck(names, err) ==
  IF err # Nil THEN [pc |-> "shipClear", err |-> err] ELSE [pc |-> "dbBegin", err |-> Nil]
ShipAfterCreateManifests(names, err) ==
  IF err # Nil THEN [pc |-> "shipClear", err |-> err]
  ELSE IF Len(names) = 0 THEN [pc |-> "shipClear", err |-> ErrNothingToShip]
  ELSE [pc |-> "dbBegin", err |-> Nil]

\* sb.Pack returns err; Redbox.Pack returns what sb.Pack returned.
PackReturns(p, err) ==
  /\ result' = [result EXCEPT ![p] = ResultOf(p, err, <<>>)]
  /\ okPacked' = IF err = Nil THEN okPacked \o AppendNewline(lv[p].row) ELSE okPacked
  /\ pc' = [pc EXCEPT ![p] = "idle"]
  /\ lv' = [lv EXCEPT ![p] = NoLocals]

\* sb.CreateManifests returns (names, err): to the caller of the S3Box, or into Ship.
CreateManifestsReturns(p, names, err) ==
  IF lv[p].via = "sb"
  THEN /\ result' = [result EXCEPT ![p] = ResultOf(p, err, names)]
       /\ pc' = [pc EXCEPT ![p] = "idle"]
       /\ lv' = [lv EXCEPT ![p] = NoLocals]
  ELSE /\ result' = result
       /\ pc' = [pc EXCEPT ![p] = ShipAfterCreateManifests(names, err).pc]
       /\ lv' = [lv EXCEPT ![p].err = ShipAfterCreateManifests(names, err).err,
                            ![p].names = names, ![p].mi = 0, ![p].manifests = <<>>]

\* defer sb.mt.Unlock()
UnlockOmitted(p) ==
  /\ sbMt' = sbMt
  /\ relSb' = relSb
Unlock(p) ==
  /\ sbMt' = NoProc
  /\ relSb' = (relSb \/ p \in knows')

\* A caller calls sb.Pack(row) directly.
CallSbPack(p, len) ==
  /\ StartOfCall(p)
  /\ nextId' = nextId + 1
  /\ pc' = [pc EXCEPT ![p] = "sbPackCheck"]
  /\ lv' = [lv EXCEPT ![p] = [NoLocals EXCEPT !.op = "sbPack", !.via = "sb",
                                              !.row = Row(nextId, len)]]
  /\ UNCHANGED extVars
  /\ UNCHANGED <<sbVars, s3Vars, rbVars, nCommits, loaded, clock, hbVars, panicked,
                 callers, okPacked, shipOK, shipRefs, shipFailed>>

\* if sb.isShipped { return errBoxIsShipped }: v is the value read.
RejectsAfterManifestsNever(v) == FALSE
RejectsAfterManifests(v) == v

\* if sb.isShipped { return errBoxIsShipped }
SbPackCheck(p) ==
  /\ At(p, "sbPackCheck")
  /\ \E v \in ReadIsShipped(p) :
       IF RejectsAfterManifests(v) THEN PackReturns(p, ErrBoxIsShipped)
            ELSE /\ pc' = [pc EXCEPT ![p] = "sbPackLock"]
                 /\ UNCHANGED <<lv, result, okPacked>>
  /\ UNCHANGED extVars
  /\ UNCHANGED <<sbVars, s3Vars, rbVars, dbVars, clock, hbVars, panicked,
                 callers, calls, nextId, pre, hist, shipOK, shipRefs, shipFailed>>

\* sb.mt.Lock(); oldBuffer := sb.bufferedData; append; if len(..) > sb.bufferSize
SbPackLock(p) ==
  /\ At(p, "sbPackLock")
  /\ LockFree(sbMt)
  /\ sbMt' = p
  /\ knows' = KnowsAfterAcquire(p, relSb)
  /\ bufferedData' = bufferedData \o AppendNewline(lv[p].row)
  /\ lv' = [lv EXCEPT ![p].oldBuffer = OldBuffer(bufferedData, bufferedData'),
                       ![p].retTo = "pack"]
  /\ pc' = [pc EXCEPT ![p] = IF Overflows(bufferedData') THEN "sbDump" ELSE "sbPackExit"]
  /\ UNCHANGED extVars
  /\ UNCHANGED <<fileLocations, isShipped, s3Vars, rbVars, dbVars, clock, relSb, relRb,
                 panicked, obsVars>>

\* dumpToS3: nothing to do for an empty buffer; otherwise write the buffer under
\* the next file key and, only if the write succeeded, clear it and record the file.
SbDump(p) ==
  /\ At(p, "sbDump")
  /\ IF DumpIsNoOp(bufferedData)
     THEN /\ lv' = [lv EXCEPT ![p].err = Nil]
          /\ UNCHANGED <<s3Data, bufferedData, fileLocations, hist>>
     ELSE \E ok \in BOOLEAN :
            /\ s3Data' = IF ok THEN Put(s3Data, FileNumber(fileLocations), bufferedData)
                         ELSE s3Data
            /\ bufferedData' = DumpedBuffer(bufferedData, ok)
            /\ fileLocations' = DumpedLocations(fileLocations, ok)
            /\ lv' = [lv EXCEPT ![p].err = IF ok THEN Nil ELSE ErrWrite]
            /\ hist' = [hist EXCEPT ![p].writeFailed = @ \/ ~ok]
  /\ pc' = [pc EXCEPT ![p] = IF lv[p].retTo = "pack" THEN "sbPackExit" ELSE "cmPartition"]
  /\ UNCHANGED extVars
  /\ UNCHANGED <<sbMt, isShipped, s3Manifests, rbVars, dbVars, clock, hbVars, panicked,
                 callers, result, okPacked, calls, nextId, pre, shipOK, shipRefs, shipFailed>>

\* Pack after the threshold check: restore the buffer if the flush failed,
\* unlock (deferred) and return.
SbPackExit(p) ==
  /\ At(p, "sbPackExit")
  /\ bufferedData' = BufferAfterFlush(lv[p].oldBuffer, bufferedData, lv[p].err)
  /\ knows' = knows
  /\ Unlock(p)
  /\ PackReturns(p, lv[p].err)
  /\ UNCHANGED extVars
  /\ UNCHANGED <<fileLocations, isShipped, s3Vars, rbVars, dbVars, clock, relRb, panicked,
                 callers, calls, nextId, pre, hist, shipOK, shipRefs, shipFailed>>

\* A caller calls sb.CreateManifests(slug, n) directly.
CallSbCreateManifests(p, slug, n) ==
  /\ StartOfCall(p)
  /\ pc' = [pc EXCEPT ![p] = "cmLock"]
  /\ lv' = [lv EXCEPT ![p] = [NoLocals EXCEPT !.op = "sbCreateManifests", !.via = "sb",
                                              !.slug = slug, !.n = n]]
  /\ UNCHANGED extVars
  /\ UNCHANGED <<sbVars, s3Vars, rbVars, nCommits, loaded, clock, hbVars, panicked,
                 callers, okPacked, nextId, shipOK, shipRefs, shipFailed>>

\* sb.mt.Lock(); then the final dumpToS3
CmLock(p) ==
  /\ At(p, "cmLock")
  /\ LockFree(sbMt)
  /\ sbMt' = p
  /\ knows' = KnowsAfterAcquire(p, relSb)
  /\ lv' = [lv EXCEPT ![p].retTo = "cm"]
  /\ pc' = [pc EXCEPT ![p] = "sbDump"]
  /\ UNCHANGED extVars
  /\ UNCHANGED <<bufferedData, fileLocations, isShipped, s3Vars, rbVars, dbVars, clock,
                 relSb, relRb, panicked, obsVars>>

\* After the final flush: return its error, or clamp nManifests and deal the files.
\* A panic in the dealing loop unwinds through the deferred calls: the unlock of
\* sb.mt and, under Ship, the clearing of the in-progress flag.
CmPartition(p) ==
  /\ At(p, "cmPartition")
  /\ LET n == ClampManifests(lv[p].n, fileLocations) IN
       IF lv[p].err # Nil
       THEN /\ knows' = knows
            /\ Unlock(p)
            /\ CreateManifestsReturns(p, <<>>, lv[p].err)
            /\ UNCHANGED <<panicked, shippingInProgress>>
       ELSE IF PartitionPanics(n, fileLocations)
       THEN /\ knows' = knows
            /\ Unlock(p)
            /\ panicked' = TRUE
            /\ shippingInProgress' = IF lv[p].via = "rb" THEN FALSE ELSE shippingInProgress
            /\ pc' = [pc EXCEPT ![p] = "panic"]
            /\ UNCHANGED <<lv, result>>
       ELSE /\ lv' = [lv EXCEPT ![p].manifests = Partition(fileLocations, n),
                                ![p].names = ManifestNames(lv[p].slug, n),
                                ![p].mi = 0]
            /\ pc' = [pc EXCEPT ![p] = IF n = 0 THEN "cmFinish" ELSE "cmUpload"]
            /\ UNCHANGED <<sbMt, knows, relSb, result, panicked, shippingInProgress>>
  /\ UNCHANGED extVars
  /\ UNCHANGED <<bufferedData, fileLocations, isShipped, s3Vars, shipped, truncate, nManifests,
                 dbVars, clock, relRb, callers, okPacked, calls, nextId, pre, hist, shipOK,
                 shipRefs, shipFailed>>

\* One turn of the upload loop: write manifest mi; a failed write returns at once.
CmUpload(p) ==
  /\ At(p, "cmUpload")
  /\ \E ok \in BOOLEAN :
       IF ok
       THEN /\ s3Manifests' = Put(s3Manifests, lv[p].names[lv[p].mi + 1],
                                  lv[p].manifests[lv[p].mi + 1])
            /\ lv' = [lv EXCEPT ![p].mi = @ + 1]
            /\ pc' = [pc EXCEPT ![p] = IF lv[p].mi + 1 = Len(lv[p].manifests)
                                        THEN "cmFinish" ELSE "cmUpload"]
            /\ UNCHANGED <<sbMt, knows, relSb, result>>
       ELSE /\ knows' = knows
            /\ Unlock(p)
            /\ CreateManifestsReturns(p, <<>>, ErrWrite)
            /\ UNCHANGED s3Manifests
  /\ UNCHANGED extVars
  /\ UNCHANGED <<bufferedData, fileLocations, isShipped, s3Data, rbVars, dbVars, clock, relRb,
                 panicked, callers, okPacked, calls, nextId, pre, hist, shipOK, shipRefs, shipFailed>>

\* sb.isShipped = true; return manifestLocations, nil
CmFinish(p) ==
  /\ At(p, "cmFinish")
  /\ isShipped' = TRUE
  /\ knows' = knows \cup {p}
  /\ Unlock(p)
  /\ CreateManifestsReturns(p, lv[p].names, Nil)
  /\ UNCHANGED extVars
  /\ UNCHANGED <<bufferedData, fileLocations, s3Vars, rbVars, dbVars, clock, relRb,
                 panicked, callers, okPacked, calls, nextId, pre, hist, shipOK, shipRefs, shipFailed>>

\* ---------------------------------------------------------------- Redbox

\* json.Unmarshal(row, &tempMap) with tempMap a map[string]interface{}: an object
\* fills the map, null leaves it nil, both without error; anything else is an error.
JSONKinds == {"object", "null", "array", "scalar", "malformed"}
UnmarshalIntoMapFails(kind) == kind \in {"array", "scalar", "malformed"}

\* isShipped / isShippingInProgress / setShippingInProgress / markShipped take
\* rb.mt for the one access and release it.
RbAccess(p) ==
  /\ knows' = KnowsAfterAcquire(p, relRb)
  /\ relRb' = (relRb \/ p \in knows')
  /\ relSb' = relSb

\* if rb.isShipped() { return errBoxShipped }
RejectsShippedNever(s) == FALSE
RejectsShipped(s) == s

\* if rb.isShippingInProgress() { return errShippingInProgress }
RejectsShipping(f) == f

\* A Redbox call returns without having entered the S3Box or the transaction.
RbReturns(p, err) ==
  /\ result' = [result EXCEPT ![p] = ResultOf(p, err, <<>>)]
  /\ pc' = [pc EXCEPT ![p] = "idle"]
  /\ lv' = [lv EXCEPT ![p] = NoLocals]

\* A caller calls rb.Pack(row).
CallRbPack(p, len, kind) ==
  /\ StartOfCall(p)
  /\ nextId' = nextId + 1
  /\ pc' = [pc EXCEPT ![p] = "rbPackIsShipped"]
  /\ lv' = [lv EXCEPT ![p] = [NoLocals EXCEPT !.op = "rbPack", !.via = "rb",
                                              !.row = Row(nextId, len), !.json = kind]]
  /\ UNCHANGED extVars
  /\ UNCHANGED <<sbVars, s3Vars, rbVars, nCommits, loaded, clock, hbVars, panicked,
                 callers, okPacked, shipOK, shipRefs, shipFailed>>

\* Pack: if rb.isShipped() { return errBoxShipped }
RbPackIsShipped(p) ==
  /\ At(p, "rbPackIsShipped")
  /\ RbAccess(p)
  /\ IF RejectsShipped(shipped)
     THEN RbReturns(p, ErrBoxShipped)
     ELSE /\ pc' = [pc EXCEPT ![p] = "rbPackIsShipping"]
          /\ UNCHANGED <<lv, result>>
  /\ UNCHANGED extVars
  /\ UNCHANGED <<sbVars, s3Vars, rbVars, dbVars, clock, panicked,
                 callers, okPacked, calls, nextId, pre, hist, shipOK, shipRefs, shipFailed>>

\* Pack: if rb.isShippingInProgress() { return errShippingInProgress }; then the
\* JSON check; then rb.s3Box.Pack(row).
RbPackIsShipping(p) ==
  /\ At(p, "rbPackIsShipping")
  /\ RbAccess(p)
  /\ IF RejectsShipping(shippingInProgress)
     THEN RbReturns(p, ErrShippingInProgress)
     ELSE IF UnmarshalIntoMapFails(lv[p].json)
     THEN RbReturns(p, ErrInvalidJSONInput)
     ELSE /\ pc' = [pc EXCEPT ![p] = "sbPackCheck"]
          /\ UNCHANGED <<lv, result>>
  /\ UNCHANGED extVars
  /\ UNCHANGED <<sbVars, s3Vars, rbVars, dbVars, clock, panicked,
                 callers, okPacked, calls, nextId, pre, hist, shipOK, shipRefs, shipFailed>>

\* A caller calls rb.Ship().
CallRbShip(p) ==
  /\ StartOfCall(p)
  /\ pc' = [pc EXCEPT ![p] = "shipIsShipped"]
  /\ lv' = [lv EXCEPT ![p] = [NoLocals EXCEPT !.op = "rbShip", !.via = "rb"]]
  /\ UNCHANGED extVars
  /\ UNCHANGED <<sbVars, s3Vars, rbVars, nCommits, loaded, clock, hbVars, panicked,
                 callers, okPacked, nextId, shipOK, shipRefs, shipFailed>>

\* Ship: if rb.isShipped() { return nil, errBoxShipped }
ShipIsShipped(p) ==
  /\ At(p, "shipIsShipped")
  /\ RbAccess(p)
  /\ IF RejectsShipped(shipped)
     THEN RbReturns(p, ErrBoxShipped)
     ELSE /\ pc' = [pc EXCEPT ![p] = "shipIsShipping"]
          /\ UNCHANGED <<lv, result>>
  /\ UNCHANGED extVars
  /\ UNCHANGED <<sbVars, s3Vars, rbVars, dbVars, clock, panicked,
                 callers, okPacked, calls, nextId, pre, hist, shipOK, shipRefs, shipFailed>>

\* Ship: if rb.isShippingInProgress() { return nil, errShippingInProgress }
ShipIsShipping(p) ==
  /\ At(p, "shipIsShipping")
  /\ RbAccess(p)
  /\ IF RejectsShipping(shippingInProgress)
     THEN RbReturns(p, ErrShippingInProgress)
     ELSE /\ pc' = [pc EXCEPT ![p] = "shipSetFlag"]
          /\ UNCHANGED <<lv, result>>
  /\ UNCHANGED extVars
  /\ UNCHANGED <<sbVars, s3Vars, rbVars, dbVars, clock, panicked,
                 callers, okPacked, calls, nextId, pre, hist, shipOK, shipRefs, shipFailed>>

\* rb.setShippingInProgress(true); then rb.s3Box.CreateManifests(rb.manifestSlug(),
\* rb.nManifests), the slug naming the second that time.Now() returns.
ShipSetFlag(p, now) ==
  /\ At(p, "shipSetFlag")
  /\ RbAccess(p)
  /\ shippingInProgress' = TRUE
  /\ now >= clock
  /\ clock' = now
  /\ lv' = [lv EXCEPT ![p].slug = now, ![p].n = nManifests]
  /\ pc' = [pc EXCEPT ![p] = "cmLock"]
  /\ UNCHANGED extVars
  /\ UNCHANGED <<sbVars, s3Vars, shipped, truncate, nManifests, dbVars, panicked, obsVars>>

\* if err := rb.copyToRedshift(manifests); err != nil { return nil, err }; rb.markShipped()
ShipAfterCopyAlwaysMarks(err) == "shipMark"
ShipAfterCopy(err) == IF err # Nil THEN "shipClear" ELSE "shipMark"

\* if rb.truncate { ... DELETE ... }: the step that follows a successful Begin.
AfterBeginAlwaysTruncates(t) == "dbTruncate"
AfterBegin(t) == IF t THEN "dbTruncate" ELSE "dbCopy"

DbCall(p, call, stmt, ok) ==
  Append(dbCalls[p], [call |-> call, stmt |-> stmt, ok |-> ok])

\* if _, err := tx.Exec(stmt); err != nil { tx.Rollback(); return err }
StopsOnExecErrorNever(ok) == FALSE
StopsOnExecError(ok) == ~ok

\* tx, err := rb.redshift.Begin(); if err != nil { return err }
DbBegin(p) ==
  /\ At(p, "dbBegin")
  /\ \E ok \in BOOLEAN :
       /\ dbCalls' = [dbCalls EXCEPT ![p] = DbCall(p, "Begin", <<>>, ok)]
       /\ IF ok
          THEN /\ pc' = [pc EXCEPT ![p] = AfterBegin(truncate)]
               /\ lv' = [lv EXCEPT ![p].mi = 0, ![p].txLoads = <<>>]
          ELSE /\ pc' = [pc EXCEPT ![p] = ShipAfterCopy(ErrDB)]
               /\ lv' = [lv EXCEPT ![p].err = ErrDB]
  /\ UNCHANGED extVars
  /\ UNCHANGED <<sbVars, s3Vars, rbVars, nCommits, loaded, clock, hbVars, panicked, obsVars>>

\* if rb.truncate { tx.Exec(DELETE FROM ...) }
DbTruncate(p) ==
  /\ At(p, "dbTruncate")
  /\ \E ok \in BOOLEAN :
       IF StopsOnExecError(ok)
       THEN /\ dbCalls' = [dbCalls EXCEPT ![p] =
                             Append(DbCall(p, "Exec", <<"DELETE">>, ok),
                                    [call |-> "Rollback", stmt |-> <<>>, ok |-> TRUE])]
            /\ pc' = [pc EXCEPT ![p] = ShipAfterCopy(ErrDB)]
            /\ lv' = [lv EXCEPT ![p].err = ErrDB]
       ELSE /\ dbCalls' = [dbCalls EXCEPT ![p] = DbCall(p, "Exec", <<"DELETE">>, ok)]
            /\ pc' = [pc EXCEPT ![p] = "dbCopy"]
            /\ lv' = lv
  /\ UNCHANGED extVars
  /\ UNCHANGED <<sbVars, s3Vars, rbVars, nCommits, loaded, clock, hbVars, panicked, obsVars>>

\* What a COPY of the manifest loads: the files the manifest object lists now.
FilesOf(name) == IF name \in DOMAIN s3Manifests THEN s3Manifests[name] ELSE <<>>

\* for _, manifest := range manifests { tx.Exec(rb.copyStatement(manifest)) }
DbCopy(p) ==
  /\ At(p, "dbCopy")
  /\ LET name == lv[p].names[lv[p].mi + 1] IN
     \E ok \in BOOLEAN :
       IF StopsOnExecError(ok)
       THEN /\ dbCalls' = [dbCalls EXCEPT ![p] =
                             Append(DbCall(p, "Exec", <<"COPY", name>>, ok),
                                    [call |-> "Rollback", stmt |-> <<>>, ok |-> TRUE])]
            /\ pc' = [pc EXCEPT ![p] = ShipAfterCopy(ErrDB)]
            /\ lv' = [lv EXCEPT ![p].err = ErrDB]
       ELSE /\ dbCalls' = [dbCalls EXCEPT ![p] = DbCall(p, "Exec", <<"COPY", name>>, ok)]
            /\ pc' = [pc EXCEPT ![p] = IF lv[p].mi + 1 = Len(lv[p].names)
                                        THEN "dbCommit" ELSE "dbCopy"]
            /\ lv' = [lv EXCEPT ![p].mi = @ + 1,
                                ![p].txLoads = IF ok THEN @ \o FilesOf(name) ELSE @]
  /\ UNCHANGED extVars
  /\ UNCHANGED <<sbVars, s3Vars, rbVars, nCommits, loaded, clock, hbVars, panicked, obsVars>>

\* return tx.Commit()
DbCommit(p) ==
  /\ At(p, "dbCommit")
  /\ \E ok \in BOOLEAN :
       /\ dbCalls' = [dbCalls EXCEPT ![p] = DbCall(p, "Commit", <<>>, ok)]
       /\ nCommits' = IF ok THEN nCommits + 1 ELSE nCommits
       /\ loaded' = IF ok THEN loaded \o lv[p].txLoads ELSE loaded
       /\ pc' = [pc EXCEPT ![p] = ShipAfterCopy(IF ok THEN Nil ELSE ErrDB)]
       /\ lv' = [lv EXCEPT ![p].err = IF ok THEN Nil ELSE ErrDB]
  /\ UNCHANGED extVars
  /\ UNCHANGED <<sbVars, s3Vars, rbVars, clock, hbVars, panicked, obsVars>>

\* rb.markShipped()
ShipMark(p) ==
  /\ At(p, "shipMark")
  /\ RbAccess(p)
  /\ shipped' = TRUE
  /\ hist' = [hist EXCEPT ![p].marked = TRUE]
  /\ pc' = [pc EXCEPT ![p] = "shipClear"]
  /\ UNCHANGED extVars
  /\ UNCHANGED <<sbVars, s3Vars, shippingInProgress, truncate, nManifests, dbVars, clock,
                 lv, panicked, callers, result, okPacked, calls, nextId, pre, shipOK,
                 shipRefs, shipFailed>>

\* The files the manifest objects of the given names list.
FilesReferenced(names) == UNION {Range(FilesOf(names[j])) : j \in 1..Len(names)}

\* The box as a Ship that failed inside copyToRedshift leaves it (kept for a
\* single caller; a later failure replaces an earlier one).
NoFailure == [failed |-> FALSE, locs |-> <<>>, data |-> EmptyStore]
ShipFailure(p) ==
  IF Cardinality(callers) = 1 /\ lv[p].err = ErrDB
  THEN [failed |-> TRUE, locs |-> fileLocations, data |-> s3Data]
  ELSE shipFailed

\* defer func() { rb.setShippingInProgress(false) }(): runs on every return.
FlagAfterShipKeptOnError(err) == err # Nil
FlagAfterShip(err) == FALSE

\* defer rb.setShippingInProgress(false); return manifests, nil / return nil, err
ShipClear(p) ==
  /\ At(p, "shipClear")
  /\ RbAccess(p)
  /\ shippingInProgress' = FlagAfterShip(lv[p].err)
  /\ result' = [result EXCEPT ![p] =
                  ResultOf(p, lv[p].err, IF lv[p].err = Nil THEN lv[p].names ELSE <<>>)]
  /\ shipFailed' = ShipFailure(p)
  /\ shipOK' = IF lv[p].err = Nil THEN shipOK + 1 ELSE shipOK
  /\ shipRefs' = IF lv[p].err = Nil
                 THEN shipRefs \cup FilesReferenced(lv[p].names) ELSE shipRefs
  /\ hist' = [q \in Procs |-> [hist[q] EXCEPT !.during = @ \ {p}]]
  /\ pc' = [pc EXCEPT ![p] = "idle"]
  /\ lv' = [lv EXCEPT ![p] = NoLocals]
  /\ UNCHANGED extVars
  /\ UNCHANGED <<sbVars, s3Vars, shipped, truncate, nManifests, dbVars, clock, panicked,
                 callers, okPacked, calls, nextId, pre>>

\* ---------------------------------------------------------------- S3ToRedshift.Validate

\* supportedColumnTypes
SupportedColumnTypes == {"boolean", "float", "int", "timestamp", "text", "longtext"}

\* durationToGranularity, its keys in hours: time.Hour and 24 * time.Hour.
DurationToGranularity == [h \in {1, 24} |-> IF h = 1 THEN "hour" ELSE "day"]

\* The loop over s.Columns from column i on, nDistKeys counted so far: the
\* first error it returns, or nil.
RECURSIVE ColumnsError(_, _, _)
ColumnsError(cols, i, nDistKeys) ==
  IF i > Len(cols) THEN Nil
  ELSE LET n == IF cols[i].DistKey THEN nDistKeys + 1 ELSE nDistKeys IN
       IF n > 1 THEN ErrMultipleDistKeys
       ELSE IF cols[i].Type \notin SupportedColumnTypes THEN ErrUnsupportedType
       ELSE ColumnsError(cols, i + 1, n)

\* sortOrds: the SortOrd of every column with SortOrd > 0, then sortOrds.Sort().
SortOrdsUnsorted(cols) ==
  LET pos == SelectSeq(cols, LAMBDA c : c.SortOrd > 0) IN
  [i \in 1..Len(pos) |-> pos[i].SortOrd]
SortOrds(cols) == SortSeq(SortOrdsUnsorted(cols), LAMBDA a, b : a < b)

\* timestampCols: the names of the columns of type timestamp.
TimestampCols(cols) == {cols[i].Name : i \in {j \in 1..Len(cols) : cols[j].Type = "timestamp"}}

\* func (s *S3ToRedshift) Validate() error
Validate(s) ==
  IF s.Table = "" \/ s.Schema = "" THEN ErrIncompleteTableName
  ELSE IF s.DataTimestampColumn = "" THEN ErrInvalidDataTimestamp
  ELSE IF s.Granularity \notin DOMAIN DurationToGranularity THEN ErrUnsupportedGranularity
  ELSE IF ColumnsError(s.Columns, 1, 0) # Nil THEN ColumnsError(s.Columns, 1, 0)
  ELSE IF \E i \in 1..Len(SortOrds(s.Columns)) : i # SortOrds(s.Columns)[i]
       THEN ErrInvalidSortOrds
  ELSE IF s.DataTimestampColumn \notin TimestampCols(s.Columns) THEN ErrInvalidDataTimestamp
  ELSE Nil

\* The columns a configuration is built from: named or not, of a supported type
\* or not, without a sort ordinal (0) or with one that may be repeated or leave
\* a gap.
Columns ==
  [Name : {"", "time"}, Type : {"timestamp", "text", "blob"},
   SortOrd : 0..MaxSortOrd, DistKey : BOOLEAN]
\* The configurations validated: at most one of schema and table missing.
Configs ==
  {s \in [Schema : {"", "s"}, Table : {"", "t"}, DataTimestampColumn : {"", "time"},
          Granularity : {0, 1, 24},
          Columns : UNION {[1..n -> Columns] : n \in 0..MaxColumns}] :
     s.Schema # "" \/ s.Table # ""}

\* A caller validates the configuration.
CallValidate ==
  /\ validated = "none"
  /\ validated' = Validate(config)
  /\ UNCHANGED <<boxVars, config, pipeVars>>

\* ---------------------------------------------------------------- Redbox with Send, Seal and Close

\* The Redbox of the Send / Seal / Close generation buffers, flushes and sends
\* by itself.  Its fields are read without the mutex; the mutex is taken
\* around the append, the restore, the reset and the write of a flush, each of
\* which is one step here.

PipeOps == {"Pack", "Seal", "Unseal", "Send", "Close", "CloseWithoutSending", "Reset",
            "CreateAndUploadCustomManifest"}

\* The step a call starts at.
FirstStep(op) ==
  CASE op = "Pack" -> "packCheck"
    [] op = "Seal" -> "sealCheck"
    [] op = "Unseal" -> "unseal"
    [] op = "Send" -> "sendCheck"
    [] op = "Close" -> "closeCheck"
    [] op = "CloseWithoutSending" -> "closeWithoutSending"
    [] op = "Reset" -> "reset"
    [] op = "CreateAndUploadCustomManifest" -> "manifest"

NoPipeLocals ==
  [op |-> "none", row |-> <<>>, json |-> "none", oldBuffer |-> <<>>, key |-> <<>>,
   err |-> Nil, during |-> FALSE]

\* What a call returned; during: rp.SendingInProgress was set when the call
\* made its checks.
NoPipeResult == [op |-> "none", err |-> Nil, during |-> FALSE, row |-> <<>>]

\* A caller calls the method op, Pack with a row of len bytes of the given kind.
CallPipe(p, op, len, kind) ==
  /\ rpPc[p] = "idle"
  /\ p \in rpCallers
  /\ rpCalls < (IF Cardinality(rpCallers) = 1 THEN MaxCallsSeq ELSE MaxCalls)
  /\ rpCalls' = rpCalls + 1
  /\ rpNextId' = IF op = "Pack" THEN rpNextId + 1 ELSE rpNextId
  /\ rpPre' = IF Cardinality(rpCallers) = 1
              THEN [rpPre EXCEPT ![p] = [closed |-> rpIsClosed, ok |-> rpOkPacked,
                                         jobs |-> Len(rpJobs), prev |-> rpResult[p]]]
              ELSE rpPre
  /\ rpResult' = [rpResult EXCEPT ![p] = NoPipeResult]
  /\ rpPc' = [rpPc EXCEPT ![p] = FirstStep(op)]
  /\ rpLv' = [rpLv EXCEPT ![p] = [NoPipeLocals EXCEPT !.op = op, !.json = kind,
                                    !.row = IF op = "Pack" THEN Row(rpNextId, len) ELSE <<>>]]
  /\ UNCHANGED <<rpBoxVars, rpFlagVars, rpEnvVars, rpCallers, rpOkPacked>>
  /\ UNCHANGED <<boxVars, validateVars>>

\* rp.SendingInProgress as the call of p finds it when it makes its checks, which
\* is at its first step.
FoundSending(p) ==
  IF rpPc[p] = FirstStep(rpLv[p].op) THEN rpSendingInProgress ELSE rpLv[p].during

\* The call of p returns err.
PipeReturns(p, err) ==
  /\ rpResult' = [rpResult EXCEPT ![p] = [op |-> rpLv[p].op, err |-> err,
                                          during |-> FoundSending(p), row |-> rpLv[p].row]]
  /\ rpPc' = [rpPc EXCEPT ![p] = "idle"]
  /\ rpLv' = [rpLv EXCEPT ![p] = NoPipeLocals]

\* The call of p goes on to the given step.
PipeGoes(p, label) ==
  /\ rpPc' = [rpPc EXCEPT ![p] = label]
  /\ rpLv' = [rpLv EXCEPT ![p].during = FoundSending(p)]
  /\ rpResult' = rpResult

\* if rp.isClosed { return ErrPipeIsClosed }
RejectsClosedNever(c) == FALSE
RejectsClosed(c) == c

\* What the checks at the head of Pack return, nil to go on.
PackChecks(p) ==
  IF rpSendingInProgress THEN ErrSendingInProgress
  ELSE IF RejectsClosed(rpIsClosed) THEN ErrPipeIsClosed
  ELSE IF rpIsSealed THEN ErrPipeIsSealed
  ELSE IF UnmarshalIntoMapFails(rpLv[p].json) THEN ErrInvalidJSONInput
  ELSE Nil

\* Pack: the checks of the flags and of the JSON.
PackCheck(p) ==
  /\ rpPc[p] = "packCheck"
  /\ IF PackChecks(p) # Nil
     THEN PipeReturns(p, PackChecks(p))
     ELSE PipeGoes(p, "packAppend")
  /\ UNCHANGED <<rpBoxVars, rpFlagVars, rpEnvVars, rpObsVars>>
  /\ UNCHANGED <<boxVars, validateVars>>

\* rp.Lock(); oldBuffer := rp.bufferedData; append the row and '\n'; rp.Unlock();
\* then if len(rp.bufferedData) > rp.bufferSize, read without the mutex.
PackAppend(p) ==
  /\ rpPc[p] = "packAppend"
  /\ rpBufferedData' = rpBufferedData \o AppendNewline(rpLv[p].row)
  /\ rpLv' = [rpLv EXCEPT ![p].oldBuffer = rpBufferedData]
  /\ rpPc' = [rpPc EXCEPT ![p] = "packLen"]
  /\ UNCHANGED <<rpFileNumber, rpFileLocations, rpIsSealed, rpTimestamp, rpFlagVars,
                 rpEnvVars, rpObsVars, rpResult>>
  /\ UNCHANGED <<boxVars, validateVars>>

\* if len(rp.bufferedData) > rp.bufferSize { rp.dumpToS3() }, else return nil.
PackLen(p) ==
  /\ rpPc[p] = "packLen"
  /\ rpPc' = [rpPc EXCEPT ![p] = IF Overflows(rpBufferedData) THEN "dumpLen" ELSE "packExit"]
  /\ UNCHANGED <<rpBoxVars, rpFlagVars, rpEnvVars, rpObsVars, rpLv, rpResult>>
  /\ UNCHANGED <<boxVars, validateVars>>

\* Where dumpToS3 returns to: into Pack, or into Seal.
AfterDump(op) == IF op = "Pack" THEN "packExit" ELSE "sealSet"

\* dumpToS3 before it takes the mutex: nothing to do for an empty buffer;
\* otherwise the file key is made of rp.timestamp and rp.fileNumber.
DumpLen(p) ==
  /\ rpPc[p] = "dumpLen"
  /\ IF Len(rpBufferedData) = 0
     THEN /\ rpPc' = [rpPc EXCEPT ![p] = AfterDump(rpLv[p].op)]
          /\ rpLv' = [rpLv EXCEPT ![p].err = Nil]
     ELSE /\ rpPc' = [rpPc EXCEPT ![p] = "dumpWrite"]
          /\ rpLv' = [rpLv EXCEPT ![p].key = <<rpTimestamp, rpFileNumber>>]
  /\ UNCHANGED <<rpBoxVars, rpFlagVars, rpEnvVars, rpObsVars, rpResult>>
  /\ UNCHANGED <<boxVars, validateVars>>

\* rp.Lock(); writeToS3(fileKey, rp.bufferedData); on success rp.fileNumber++,
\* the buffer is cleared and the file recorded; rp.Unlock().
DumpWrite(p) ==
  /\ rpPc[p] = "dumpWrite"
  /\ \E ok \in BOOLEAN :
       IF ok
       THEN /\ rpS3' = Put(rpS3, rpLv[p].key, rpBufferedData)
            /\ rpWrites' = Append(rpWrites, [key |-> rpLv[p].key, data |-> rpBufferedData])
            /\ rpFileNumber' = rpFileNumber + 1
            /\ rpBufferedData' = <<>>
            /\ rpFileLocations' = Append(rpFileLocations, rpLv[p].key)
            /\ rpLv' = [rpLv EXCEPT ![p].err = Nil]
       ELSE /\ rpLv' = [rpLv EXCEPT ![p].err = ErrWrite]
            /\ UNCHANGED <<rpS3, rpWrites, rpFileNumber, rpBufferedData, rpFileLocations>>
  /\ rpPc' = [rpPc EXCEPT ![p] = AfterDump(rpLv[p].op)]
  /\ UNCHANGED <<rpIsSealed, rpTimestamp, rpFlagVars, rpManifests, rpJobs, rpNow, rpObsVars,
                 rpResult>>
  /\ UNCHANGED <<boxVars, validateVars>>

\* Pack after the length check: if dumpToS3 failed, rp.Lock(); rp.bufferedData =
\* oldBuffer; rp.Unlock(); return err; otherwise return nil.
PackExit(p) ==
  /\ rpPc[p] = "packExit"
  /\ rpBufferedData' = IF rpLv[p].err # Nil THEN rpLv[p].oldBuffer ELSE rpBufferedData
  /\ rpOkPacked' = IF rpLv[p].err = Nil
                   THEN rpOkPacked \o AppendNewline(rpLv[p].row) ELSE rpOkPacked
  /\ PipeReturns(p, rpLv[p].err)
  /\ UNCHANGED <<rpFileNumber, rpFileLocations, rpIsSealed, rpTimestamp, rpFlagVars,
                 rpEnvVars, rpCallers, rpPre, rpCalls, rpNextId>>
  /\ UNCHANGED <<boxVars, validateVars>>

\* Send, called by Close or by the caller, returns err: Close wraps an error
\* and, after a Send that returned nil, sets rp.isClosed.
InnerReturns(p, err) ==
  /\ PipeReturns(p, IF rpLv[p].op = "Close" /\ err # Nil THEN ErrClosing ELSE err)
  /\ rpIsClosed' = (rpIsClosed \/ (rpLv[p].op = "Close" /\ err = Nil))

\* Seal, called by Send or by the caller: its checks, then dumpToS3.
SealCheck(p) ==
  /\ rpPc[p] = "sealCheck"
  /\ IF RejectsClosed(rpIsClosed) THEN InnerReturns(p, ErrPipeIsClosed)
     ELSE IF rpSendingInProgress THEN InnerReturns(p, ErrSendingInProgress)
     ELSE PipeGoes(p, "dumpLen") /\ rpIsClosed' = rpIsClosed
  /\ UNCHANGED <<rpBoxVars, rpSendingInProgress, rpJobEndpoint, rpEnvVars, rpObsVars>>
  /\ UNCHANGED <<boxVars, validateVars>>

\* Seal after dumpToS3: return its error, or rp.isSealed = true; Send goes on to
\* createAndUploadManifest.
SealSet(p) ==
  /\ rpPc[p] = "sealSet"
  /\ rpIsSealed' = IF rpLv[p].err # Nil THEN rpIsSealed ELSE TRUE
  /\ IF rpLv[p].err # Nil \/ rpLv[p].op = "Seal"
     THEN InnerReturns(p, rpLv[p].err)
     ELSE PipeGoes(p, "manifest") /\ rpIsClosed' = rpIsClosed
  /\ UNCHANGED <<rpBufferedData, rpFileNumber, rpFileLocations, rpTimestamp,
                 rpSendingInProgress, rpJobEndpoint, rpEnvVars, rpObsVars>>
  /\ UNCHANGED <<boxVars, validateVars>>

\* Unseal: the checks, then rp.isSealed = false.
Unseal(p) ==
  /\ rpPc[p] = "unseal"
  /\ IF RejectsClosed(rpIsClosed) THEN PipeReturns(p, ErrPipeIsClosed) /\ UNCHANGED rpIsSealed
     ELSE IF rpSendingInProgress
     THEN PipeReturns(p, ErrSendingInProgress) /\ UNCHANGED rpIsSealed
     ELSE PipeReturns(p, Nil) /\ rpIsSealed' = FALSE
  /\ UNCHANGED <<rpBufferedData, rpFileNumber, rpFileLocations, rpTimestamp, rpFlagVars,
                 rpEnvVars, rpObsVars>>
  /\ UNCHANGED <<boxVars, validateVars>>

\* Reset: what its checks return, nil to go on.
ResetChecks(sending, closed) ==
  IF sending THEN ErrSendingInProgress
  ELSE IF RejectsClosed(closed) THEN ErrPipeIsClosed
  ELSE Nil

\* rp.fileLocations = []string{}
LocationsAfterResetKept(locs) == locs
LocationsAfterReset(locs) == <<>>

\* Reset, the pipe closed or not: after its checks, under the mutex, a new
\* timestamp, no files, an empty buffer, unsealed.  The rows accepted are
\* counted anew.
ResetBox(closed, now) ==
  IF ResetChecks(rpSendingInProgress, closed) = Nil
  THEN /\ now >= rpNow
       /\ rpNow' = now
       /\ rpTimestamp' = now
       /\ rpFileNumber' = 0
       /\ rpFileLocations' = LocationsAfterReset(rpFileLocations)
       /\ rpBufferedData' = <<>>
       /\ rpIsSealed' = FALSE
       /\ rpOkPacked' = <<>>
  ELSE /\ now = rpNow
       /\ UNCHANGED <<rpBoxVars, rpNow, rpOkPacked>>

\* A caller's Reset.
Reset(p, now) ==
  /\ rpPc[p] = "reset"
  /\ ResetBox(rpIsClosed, now)
  /\ PipeReturns(p, ResetChecks(rpSendingInProgress, rpIsClosed))
  /\ UNCHANGED <<rpFlagVars, rpS3, rpManifests, rpJobs, rpWrites, rpCallers, rpPre, rpCalls,
                 rpNextId>>
  /\ UNCHANGED <<boxVars, validateVars>>

\* CreateAndUploadCustomManifest, called by the caller under a name of its own
\* or by Send under the default name, made of the hour of rp.timestamp:
\* ErrPackageNotSealed unless sealed; the manifest lists rp.fileLocations; Send
\* goes on to uploadConfig.
Manifest(p) ==
  /\ rpPc[p] = "manifest"
  /\ IF ~rpIsSealed
     THEN InnerReturns(p, ErrPackageNotSealed) /\ UNCHANGED rpManifests
     ELSE \E ok \in BOOLEAN :
            /\ rpManifests' =
                 IF ok THEN Put(rpManifests,
                                IF rpLv[p].op = "CreateAndUploadCustomManifest"
                                THEN "custom" ELSE "default",
                                rpFileLocations)
                 ELSE rpManifests
            /\ IF ~ok THEN InnerReturns(p, ErrWrite)
               ELSE IF rpLv[p].op = "CreateAndUploadCustomManifest" THEN InnerReturns(p, Nil)
               ELSE PipeGoes(p, "config") /\ rpIsClosed' = rpIsClosed
  /\ UNCHANGED <<rpBoxVars, rpSendingInProgress, rpJobEndpoint, rpS3, rpJobs, rpNow,
                 rpWrites, rpObsVars>>
  /\ UNCHANGED <<boxVars, validateVars>>

\* uploadConfig: the error of dc.Validate(), or of writeToS3, or nil.
Config(p) ==
  /\ rpPc[p] = "config"
  /\ \E err \in {Nil, ErrInvalidConfig, ErrWrite} :
       IF err # Nil THEN InnerReturns(p, err)
       ELSE PipeGoes(p, "sendFlag") /\ rpIsClosed' = rpIsClosed
  /\ UNCHANGED <<rpBoxVars, rpSendingInProgress, rpJobEndpoint, rpEnvVars, rpObsVars>>
  /\ UNCHANGED <<boxVars, validateVars>>

\* What the checks at the head of Send return, "go" to go on: nil if nothing
\* was ever written.
SendChecks ==
  IF RejectsClosed(rpIsClosed) THEN ErrPipeIsClosed
  ELSE IF ~rpJobEndpoint THEN ErrNoJobEndpoint
  ELSE IF rpSendingInProgress THEN ErrSendingInProgress
  ELSE IF rpFileNumber = 0 /\ Len(rpBufferedData) = 0 THEN Nil
  ELSE "go"

\* Send, called by Close or by the caller: its checks, then Seal.
SendCheck(p) ==
  /\ rpPc[p] = "sendCheck"
  /\ IF SendChecks # "go" THEN InnerReturns(p, SendChecks)
     ELSE PipeGoes(p, "sealCheck") /\ rpIsClosed' = rpIsClosed
  /\ UNCHANGED <<rpBoxVars, rpSendingInProgress, rpJobEndpoint, rpEnvVars, rpObsVars>>
  /\ UNCHANGED <<boxVars, validateVars>>

\* rp.SendingInProgress = true
SendFlag(p) ==
  /\ rpPc[p] = "sendFlag"
  /\ rpSendingInProgress' = TRUE
  /\ rpPc' = [rpPc EXCEPT ![p] = "post"]
  /\ UNCHANGED <<rpBoxVars, rpIsClosed, rpJobEndpoint, rpEnvVars, rpObsVars, rpLv, rpResult>>
  /\ UNCHANGED <<boxVars, validateVars>>

\* The bytes of the files the manifest of the given name lists.
RECURSIVE FileBytes(_)
FileBytes(locs) == IF locs = <<>> THEN <<>> ELSE rpS3[Head(locs)] \o FileBytes(Tail(locs))

\* postErr := rp.postS3ToRedshiftJob(); rp.SendingInProgress = false; the job
\* posted loads the files the manifest lists.
Post(p) ==
  /\ rpPc[p] = "post"
  /\ rpSendingInProgress' = FALSE
  /\ \E ok \in BOOLEAN :
       IF ok
       THEN /\ rpJobs' = Append(rpJobs, FileBytes(rpManifests["default"]))
            /\ PipeGoes(p, "sendReset") /\ rpIsClosed' = rpIsClosed
       ELSE /\ rpJobs' = rpJobs
            /\ InnerReturns(p, ErrPost)
  /\ UNCHANGED <<rpBoxVars, rpJobEndpoint, rpS3, rpManifests, rpNow, rpWrites, rpObsVars>>
  /\ UNCHANGED <<boxVars, validateVars>>

\* rp.Reset(); return nil
SendReset(p, now) ==
  /\ rpPc[p] = "sendReset"
  /\ ResetBox(rpIsClosed, now)
  /\ InnerReturns(p, Nil)
  /\ UNCHANGED <<rpSendingInProgress, rpJobEndpoint, rpS3, rpManifests, rpJobs, rpWrites,
                 rpCallers, rpPre, rpCalls, rpNextId>>
  /\ UNCHANGED <<boxVars, validateVars>>

\* Close: nil if closed already, ErrSendingInProgress during a Send, else Send.
CloseCheck(p) ==
  /\ rpPc[p] = "closeCheck"
  /\ IF rpIsClosed THEN PipeReturns(p, Nil)
     ELSE IF rpSendingInProgress THEN PipeReturns(p, ErrSendingInProgress)
     ELSE PipeGoes(p, "sendCheck")
  /\ UNCHANGED <<rpBoxVars, rpFlagVars, rpEnvVars, rpObsVars>>
  /\ UNCHANGED <<boxVars, validateVars>>

\* CloseWithoutSending: rp.isClosed = true; rp.Reset(), whose error is dropped.
CloseWithoutSending(p) ==
  /\ rpPc[p] = "closeWithoutSending"
  /\ IF rpSendingInProgress
     THEN /\ PipeReturns(p, ErrSendingInProgress)
          /\ UNCHANGED <<rpIsClosed, rpBoxVars, rpNow, rpOkPacked>>
     ELSE /\ rpIsClosed' = TRUE
          /\ ResetBox(TRUE, rpNow)
          /\ PipeReturns(p, Nil)
  /\ UNCHANGED <<rpSendingInProgress, rpJobEndpoint, rpS3, rpManifests, rpJobs, rpWrites,
                 rpCallers, rpPre, rpCalls, rpNextId>>
  /\ UNCHANGED <<boxVars, validateVars>>

\* ---------------------------------------------------------------- specifications

InitState ==
  /\ sbMt = NoProc /\ bufferedData = <<>> /\ fileLocations = <<>> /\ isShipped = FALSE
  /\ s3Data = EmptyStore /\ s3Manifests = EmptyStore
  /\ shippingInProgress = FALSE /\ shipped = FALSE
  /\ dbCalls = [p \in Procs |-> <<>>] /\ nCommits = 0 /\ loaded = <<>>
  /\ clock = 1
  /\ knows = {} /\ relSb = FALSE /\ relRb = FALSE
  /\ pc = [p \in Procs |-> "idle"] /\ lv = [p \in Procs |-> NoLocals]
  /\ panicked = FALSE
  /\ result = [p \in Procs |-> NoResult] /\ okPacked = <<>>
  /\ calls = 0 /\ nextId = 1
  /\ pre = [p \in Procs |-> [buf |-> <<>>, locs |-> <<>>, data |-> EmptyStore,
                            man |-> EmptyStore, prev |-> NoResult]]
  /\ hist = [p \in Procs |-> [writeFailed |-> FALSE, marked |-> FALSE, afterShip |-> FALSE,
                             afterFail |-> FALSE, afterManifests |-> FALSE,
                             during |-> {}]]
  /\ shipOK = 0 /\ shipRefs = {} /\ shipFailed = NoFailure

\* No table configuration is being validated.
NoConfig ==
  [Schema |-> "", Table |-> "", DataTimestampColumn |-> "", Granularity |-> 0,
   Columns |-> <<>>]

\* The Redbox of the Send / Seal / Close generation as NewRedbox leaves it.
InitPipeState ==
  /\ rpBufferedData = <<>> /\ rpFileNumber = 0 /\ rpFileLocations = <<>>
  /\ rpIsSealed = FALSE /\ rpIsClosed = FALSE /\ rpSendingInProgress = FALSE
  /\ rpTimestamp = 1 /\ rpNow = 1
  /\ rpS3 = EmptyStore /\ rpManifests = EmptyStore /\ rpJobs = <<>> /\ rpWrites = <<>>
  /\ rpPc = [p \in Procs |-> "idle"] /\ rpLv = [p \in Procs |-> NoPipeLocals]
  /\ rpResult = [p \in Procs |-> NoPipeResult]
  /\ rpPre = [p \in Procs |-> [closed |-> FALSE, ok |-> <<>>, jobs |-> 0,
                                prev |-> NoPipeResult]]
  /\ rpCalls = 0 /\ rpNextId = 1 /\ rpOkPacked = <<>>

\* ... with nobody calling it.
NoPipe == InitPipeState /\ rpCallers = {} /\ rpJobEndpoint = FALSE

\* A Redbox or S3Box as its constructor leaves it.
InitCommon ==
  /\ InitState
  /\ config = NoConfig /\ validated = "none"
  /\ NoPipe

\* An S3Box used directly (no Redbox around it).
InitBox ==
  /\ InitCommon
  /\ truncate = FALSE /\ nManifests = 0
  /\ callers = Procs

\* ... by a single goroutine.
InitBoxSeq ==
  /\ InitCommon
  /\ truncate = FALSE /\ nManifests = 0
  /\ callers = {1}

SbSteps(p) ==
  \/ SbPackCheck(p)
  \/ SbPackLock(p)
  \/ SbDump(p)
  \/ SbPackExit(p)
  \/ CmLock(p)
  \/ CmPartition(p)
  \/ CmUpload(p)
  \/ CmFinish(p)

\* The rows handed to an S3Box: a short one, of which two fit the buffer, and
\* the longest two, of which, at the buffer size chosen, one fills the buffer
\* exactly and one overflows it.
RowLens == {1, MaxRowLen - 1, MaxRowLen}

NextBox ==
  \E p \in Procs :
    \/ \E len \in RowLens : CallSbPack(p, len)
    \/ \E slug \in 1..MaxSlug, n \in -1..MaxManifests : CallSbCreateManifests(p, slug, n)
    \/ SbSteps(p)

\* Concurrent callers pack JSON objects of two lengths: one that with its newline
\* fills the buffer exactly (no flush) and one that overflows it.
FitOrOverflow == {BufferSize - 1, BufferSize}

\* A Redbox built by NewRedbox (nManifests >= 1) or by newRedboxInjection (here
\* also nManifests = 0), called by concurrent goroutines within one second of
\* time.Now(), so that the manifest slugs of their Ship calls coincide.
Init ==
  /\ InitCommon
  /\ truncate \in BOOLEAN
  /\ nManifests \in 0..MaxManifests
  /\ callers = Procs

RbSteps(p) ==
  \/ RbPackIsShipped(p)
  \/ RbPackIsShipping(p)
  \/ ShipIsShipped(p)
  \/ ShipIsShipping(p)
  \/ DbBegin(p)
  \/ DbTruncate(p)
  \/ DbCopy(p)
  \/ DbCommit(p)
  \/ ShipMark(p)
  \/ ShipClear(p)

Next ==
  \E p \in Procs :
    \/ \E len \in FitOrOverflow : CallRbPack(p, len, "object")
    \/ CallRbShip(p)
    \/ ShipSetFlag(p, clock)
    \/ RbSteps(p)
    \/ SbSteps(p)

Spec == Init /\ [][Next]_vars

\* A Redbox called by a single goroutine, with time passing between its Ship
\* calls, packing JSON objects that fit or overflow the buffer and one-byte
\* rows that json.Unmarshal accepts without filling the map or rejects.
InitSeq ==
  /\ InitCommon
  /\ truncate \in BOOLEAN
  /\ nManifests \in 0..MaxManifests
  /\ callers = {1}

NextSeq ==
  \E p \in Procs :
    \/ \E len \in FitOrOverflow : CallRbPack(p, len, "object")
    \/ \E kind \in {"null", "malformed"} : CallRbPack(p, 1, kind)
    \/ CallRbShip(p)
    \/ \E now \in clock..MaxSlug : ShipSetFlag(p, now)
    \/ RbSteps(p)
    \/ SbSteps(p)

SpecSeq == InitSeq /\ [][NextSeq]_vars

\* A Redbox built by NewRedbox (nManifests >= 1) with Truncate set, so that a
\* Ship makes every call of the transaction, called by concurrent goroutines.
\* A goroutine inside a call keeps being scheduled: each of its steps is a
\* field access under rb.mt, a call on the store or the connection, which
\* returns, or the acquisition of sb.mt, which sync.Mutex grants once free.
InitLive ==
  /\ InitCommon
  /\ truncate = TRUE
  /\ nManifests \in {1, MaxManifests}
  /\ callers = Procs

Steps(p) == ShipSetFlag(p, clock) \/ RbSteps(p) \/ SbSteps(p)

SpecLive == InitLive /\ [][Next]_vars /\ \A p \in Procs : WF_vars(Steps(p))

SpecBox == InitBox /\ [][NextBox]_vars
SpecBoxSeq == InitBoxSeq /\ [][NextBox]_vars

\* A table configuration, any of Configs, is validated; no box is in use.
InitValidate ==
  /\ InitState
  /\ truncate = FALSE /\ nManifests = 0 /\ callers = {}
  /\ config \in Configs /\ validated = "none"
  /\ NoPipe

NextValidate == CallValidate

SpecValidate == InitValidate /\ [][NextValidate]_vars

\* A Redbox of the Send / Seal / Close generation, with or without a job
\* endpoint, called by concurrent goroutines within one second.
InitPipe ==
  /\ InitState
  /\ truncate = FALSE /\ nManifests = 0 /\ callers = {}
  /\ config = NoConfig /\ validated = "none"
  /\ InitPipeState
  /\ rpJobEndpoint \in BOOLEAN
  /\ rpCallers = Procs

\* ... called by a single goroutine.
InitPipeSeq ==
  /\ InitState
  /\ truncate = FALSE /\ nManifests = 0 /\ callers = {}
  /\ config = NoConfig /\ validated = "none"
  /\ InitPipeState
  /\ rpJobEndpoint \in BOOLEAN
  /\ rpCallers = {1}

PackSteps(p) ==
  \/ PackCheck(p)
  \/ PackAppend(p)
  \/ PackLen(p)
  \/ DumpLen(p)
  \/ DumpWrite(p)
  \/ PackExit(p)

PipeSteps(p) ==
  \/ SealCheck(p)
  \/ SealSet(p)
  \/ Unseal(p)
  \/ Manifest(p)
  \/ Config(p)
  \/ SendCheck(p)
  \/ SendFlag(p)
  \/ Post(p)
  \/ CloseCheck(p)
  \/ CloseWithoutSending(p)

NextPipe ==
  \E p \in Procs :
    \/ \E len \in FitOrOverflow : CallPipe(p, "Pack", len, "object")
    \/ \E op \in PipeOps \ {"Pack"} : CallPipe(p, op, 0, "none")
    \/ Reset(p, rpNow)
    \/ SendReset(p, rpNow)
    \/ PackSteps(p)
    \/ PipeSteps(p)

SpecPipe == InitPipe /\ [][NextPipe]_vars

\* The single caller also packs rows that are not JSON, and time passes
\* between its resets.
NextPipeSeq ==
  \E p \in Procs :
    \/ \E len \in FitOrOverflow : CallPipe(p, "Pack", len, "object")
    \/ CallPipe(p, "Pack", 1, "malformed")
    \/ \E op \in PipeOps \ {"Pack"} : CallPipe(p, op, 0, "none")
    \/ \E now \in rpNow..MaxSlug : Reset(p, now)
    \/ \E now \in rpNow..MaxSlug : SendReset(p, now)
    \/ PackSteps(p)
    \/ PipeSteps(p)

SpecPipeSeq == InitPipeSeq /\ [][NextPipeSeq]_vars

\* Concurrent goroutines only pack.
NextPipePack ==
  \E p \in Procs :
    \/ \E len \in RowLens : CallPipe(p, "Pack", len, "object")
    \/ PackSteps(p)

SpecPipePack == InitPipe /\ [][NextPipePack]_vars

\* ---------------------------------------------------------------- properties

\* The bytes of the produced files, in the order of the location list.
RECURSIVE Contents(_)
Contents(locs) ==
  IF locs = <<>> THEN <<>> ELSE s3Data[Head(locs)] \o Contents(Tail(locs))

Quiescent == \A p \in Procs : pc[p] = "idle"

\* Goroutine p is between sb.mt.Lock() and the deferred sb.mt.Unlock().
InsideLock(p) == pc[p] \in {"sbDump", "sbPackExit", "cmPartition", "cmUpload", "cmFinish"}

\* C1: with a single caller and the store failing at will, whenever no call is
\* executing the produced files, read in location order, followed by the buffer
\* are exactly the rows (each with its newline) whose Pack returned nil, in call
\* order: none missing, none twice.
C1_ExactlyOnceAccounting ==
  Quiescent => Contents(fileLocations) \o bufferedData = okPacked

C1_Witness ==
  /\ Quiescent
  /\ Len(fileLocations) >= 1
  /\ bufferedData # <<>>
  /\ result[1].op = "sbPack" /\ result[1].err = ErrWrite
  /\ calls >= 3

\* C2: a Pack whose flush failed returns the write error and leaves the buffer
\* as it was before the call appended its row, and the location list as it was.
C2_FailedFlushRestores ==
  \A p \in Procs :
    (pc[p] = "idle" /\ result[p].op = "sbPack" /\ hist[p].writeFailed)
      => /\ result[p].err = ErrWrite
         /\ bufferedData = pre[p].buf
         /\ fileLocations = pre[p].locs

C2_Witness ==
  /\ pc[1] = "idle" /\ result[1].op = "sbPack" /\ hist[1].writeFailed
  /\ pre[1].buf # <<>>
  /\ bufferedData = pre[1].buf

\* The number of entries, over the manifests named, that reference file f.
References(names, f) ==
  Cardinality({jk \in {x \in (1..Len(names)) \X (1..Len(fileLocations)) :
                          x[2] <= Len(s3Manifests[names[x[1]]])} :
                 s3Manifests[names[jk[1]]][jk[2]] = f})

\* C3: when CreateManifests(slug, n) with n >= 1 has returned nil, every
\* produced file is referenced by exactly one entry of the returned manifests
\* and the manifests reference nothing else.
C3_ManifestsCoverFilesOnce ==
  \A p \in Procs :
    (Quiescent /\ result[p].op = "sbCreateManifests" /\ result[p].err = Nil
       /\ result[p].n >= 1)
      => /\ \A j \in 1..Len(result[p].manifests) :
              result[p].manifests[j] \in DOMAIN s3Manifests
         /\ \A f \in Range(fileLocations) : References(result[p].manifests, f) = 1
         /\ \A j \in 1..Len(result[p].manifests) :
              /\ Range(s3Manifests[result[p].manifests[j]]) \subseteq Range(fileLocations)
              /\ Len(s3Manifests[result[p].manifests[j]]) <= Len(fileLocations)

C3_Witness ==
  /\ Quiescent /\ result[1].op = "sbCreateManifests" /\ result[1].err = Nil
  /\ result[1].n = 2
  /\ Len(fileLocations) = 3
  /\ Len(result[1].manifests) = 2

\* C10: concurrent Pack calls exclude each other from the append, the threshold
\* check, the flush and the restore, and whenever the mutex is free the files
\* and the buffer hold exactly the rows of the successful Packs in the order
\* in which those calls left the mutex.
C10_PackIsAtomic ==
  /\ \A p, q \in Procs : (InsideLock(p) /\ InsideLock(q)) => p = q
  /\ (\A p \in Procs : ~InsideLock(p)) => Contents(fileLocations) \o bufferedData = okPacked

C10_Witness ==
  /\ pc[1] = "sbPackExit" /\ lv[1].err = ErrWrite /\ lv[1].oldBuffer # <<>>
  /\ pc[2] = "sbPackLock"

\* The log of the calls goroutine p's current or last Ship made on Redshift.
FailedExecs(log) == {i \in 1..Len(log) : log[i].call = "Exec" /\ ~log[i].ok}
Commits(log) == {i \in 1..Len(log) : log[i].call = "Commit" /\ log[i].ok}

ShipReturned(p) == pc[p] = "idle" /\ result[p].op = "rbShip"

\* C4: in every Ship, a failed DELETE or COPY is followed by Rollback and by
\* nothing else (no further statement, no Commit), and a Ship that returned an
\* error committed no transaction.
C4_FailedStatementRollsBack ==
  \A p \in Procs :
    /\ \A i \in FailedExecs(dbCalls[p]) :
         /\ Len(dbCalls[p]) = i + 1
         /\ dbCalls[p][i + 1].call = "Rollback"
    /\ (ShipReturned(p) /\ FailedExecs(dbCalls[p]) # {}) => result[p].err = ErrDB
    /\ (ShipReturned(p) /\ result[p].err # Nil) => Commits(dbCalls[p]) = {}

C4_Witness ==
  /\ ShipReturned(1) /\ result[1].err = ErrDB
  /\ Len(dbCalls[1]) = 4
  /\ dbCalls[1][2].call = "Exec" /\ dbCalls[1][2].ok
  /\ dbCalls[1][3].call = "Exec" /\ ~dbCalls[1][3].ok /\ dbCalls[1][3].stmt[1] = "COPY"
  /\ dbCalls[1][4].call = "Rollback"

\* C5: the box is shipped only once a transaction has committed; a Ship marks
\* it shipped only after CreateManifests gave it at least one manifest and its
\* own Commit succeeded; a Ship that returned an error has not marked it.
C5_ShippedOnlyAfterCommit ==
  /\ shipped => nCommits >= 1
  /\ shipped => \E p \in Procs : hist[p].marked \/ shipOK > 0
  /\ \A p \in Procs :
       /\ hist[p].marked =>
            /\ Commits(dbCalls[p]) = {Len(dbCalls[p])}
            /\ \E i \in 1..Len(dbCalls[p]) :
                 dbCalls[p][i].call = "Exec" /\ dbCalls[p][i].stmt[1] = "COPY"
       /\ (ShipReturned(p) /\ result[p].err # Nil) => ~hist[p].marked

C5_Witness ==
  /\ ShipReturned(1) /\ result[1].err = ErrDB
  /\ Len(dbCalls[1]) >= 3
  /\ dbCalls[1][Len(dbCalls[1])].call = "Commit"
  /\ ~shipped

\* C6: a Pack or Ship called after some Ship has returned nil gets no further
\* than the shipped check: it returns errBoxShipped and has made no call on the
\* S3Box, the store or Redshift.
C6_NothingAfterShipped ==
  \A p \in Procs :
    hist[p].afterShip =>
      /\ pc[p] \in {"idle", "rbPackIsShipped", "shipIsShipped"}
      /\ dbCalls[p] = <<>>
      /\ pc[p] = "idle" => result[p].err = ErrBoxShipped

C6_Witness ==
  /\ hist[2].afterShip /\ pc[2] = "idle"
  /\ result[2].op = "rbPack" /\ result[2].err = ErrBoxShipped
  /\ ShipReturned(1) /\ result[1].err = Nil

\* C7: a Pack or Ship that was called, and has returned, while another caller's
\* Ship was in flight returned errShippingInProgress; and the in-progress flag
\* is up only while some Ship is in flight, so that nothing is rejected with
\* that error once the Ship has completed.
C7_RejectedWhileShipInFlight ==
  /\ \A p \in Procs :
       (pc[p] = "idle" /\ result[p].op \in {"rbPack", "rbShip"} /\ hist[p].during # {})
         => result[p].err = ErrShippingInProgress
  /\ shippingInProgress => \E q \in Procs : ShipInFlight(q)

\* C8: at no time are two Ship calls past the admission checks.
C8_AtMostOneShipAdmitted ==
  Cardinality({p \in Procs : ShipAdmitted(p)}) <= 1

\* The rows whose Pack returned nil.
PackedIds == Range(okPacked) \ {NL}

\* C9: once a Ship has returned nil, every row whose Pack returned nil lies in
\* a file that a manifest of a successful Ship references.
C9_ShippedEverythingPacked ==
  shipOK > 0 =>
    \A id \in PackedIds :
      \E k \in shipRefs : k \in DOMAIN s3Data /\ id \in Range(s3Data[k])

\* The errors with which a call is turned away before it does anything.
Rejections == {ErrBoxShipped, ErrShippingInProgress, ErrBoxIsShipped}

\* The call before p's last one was a Ship that returned errNothingToShip or a
\* Redshift error, and p's last call was a Pack of a JSON object.
PackAfterFailedShip(p) ==
  /\ pc[p] = "idle"
  /\ result[p].op = "rbPack" /\ result[p].json = "object"
  /\ pre[p].prev.op = "rbShip" /\ pre[p].prev.err \in {ErrNothingToShip, ErrDB}

\* C11: a Pack of a JSON object that follows a Ship which returned
\* errNothingToShip or a Redshift error is not turned away, and when it
\* returns nil its row is in the buffer or in a file.
C11_FailedShipReopens ==
  \A p \in Procs :
    PackAfterFailedShip(p) =>
      /\ result[p].err \notin Rejections
      /\ result[p].err = Nil =>
            \E i \in 1..Len(Contents(fileLocations) \o bufferedData) :
              (Contents(fileLocations) \o bufferedData)[i] = result[p].row[1]

\* The manifests named reference every file of locs exactly once and no other.
CoversOnce(names, locs) ==
  /\ \A j \in 1..Len(names) : names[j] \in DOMAIN s3Manifests
  /\ \A f \in Range(locs) : References(names, f) = 1
  /\ FilesReferenced(names) \subseteq Range(locs)

C13_NothingToShip ==
  \A p \in Procs :
    (okPacked = <<>> /\ (lv[p].op = "rbShip" \/ ShipReturned(p))) =>
      /\ dbCalls[p] = <<>>
      /\ ShipReturned(p) =>
            result[p].err = ErrNothingToShip /\ result[p].manifests = <<>>

C13_Witness ==
  /\ okPacked = <<>>
  /\ ShipReturned(1) /\ result[1].err = ErrNothingToShip
  /\ pre[1].prev.op = "rbPack" /\ pre[1].prev.err = ErrInvalidJSONInput

\* The calls a successful copyToRedshift makes for the manifests named.
ExpectedCalls(names) ==
  <<[call |-> "Begin", stmt |-> <<>>, ok |-> TRUE]>>
  \o (IF truncate THEN <<[call |-> "Exec", stmt |-> <<"DELETE">>, ok |-> TRUE]>> ELSE <<>>)
  \o [j \in 1..Len(names) |-> [call |-> "Exec", stmt |-> <<"COPY", names[j]>>, ok |-> TRUE]]
  \o <<[call |-> "Commit", stmt |-> <<>>, ok |-> TRUE]>>

\* C17: a Ship that returned nil made exactly the calls Begin, DELETE if and
\* only if truncate is set, one COPY per manifest in order, Commit; and the
\* manifests it returned are those CreateManifests wrote for its slug.
C17_ShipCallSequence ==
  \A p \in Procs :
    (ShipReturned(p) /\ result[p].err = Nil) =>
      /\ dbCalls[p] = ExpectedCalls(result[p].manifests)
      /\ result[p].manifests =
           ManifestNames(result[p].slug, ClampManifests(nManifests, fileLocations))
      /\ \A j \in 1..Len(result[p].manifests) :
           /\ result[p].manifests[j] \in DOMAIN s3Manifests
           /\ s3Manifests[result[p].manifests[j]] # <<>>

C17_Witness ==
  /\ ShipReturned(1) /\ result[1].err = Nil
  /\ ~truncate
  /\ Len(result[1].manifests) = 2
  /\ Len(dbCalls[1]) = 4

\* C14: every entry of the location list names an object that a successful
\* write put in the store, and there is one entry per such object: a failed
\* write has added none.
C14_LocationsAreWritten ==
  /\ \A i \in 1..Len(fileLocations) :
       /\ fileLocations[i] \in DOMAIN s3Data
       /\ s3Data[fileLocations[i]] # <<>>
  /\ Cardinality(Range(fileLocations)) = Len(fileLocations)
  /\ Cardinality(DOMAIN s3Data) = Len(fileLocations)

C14_Witness ==
  /\ pc[1] = "idle" /\ result[1].op = "sbPack" /\ result[1].err = ErrWrite
  /\ hist[1].writeFailed
  /\ Len(fileLocations) >= 1

\* CreateManifests(slug, n) with n >= 1 has returned nil to p.
ManifestsCreated(p) ==
  /\ Quiescent
  /\ result[p].op = "sbCreateManifests" /\ result[p].err = Nil
  /\ result[p].n >= 1

Min(a, b) == IF a < b THEN a ELSE b

\* C15: CreateManifests(slug, n) with n >= 1 returns min(n, number of files)
\* names, all different, each naming a manifest it wrote with at least one entry.
C15_ManifestCountIsClamped ==
  \A p \in Procs :
    ManifestsCreated(p) =>
      /\ Len(result[p].manifests) = Min(result[p].n, Len(fileLocations))
      /\ Cardinality(Range(result[p].manifests)) = Len(result[p].manifests)
      /\ \A j \in 1..Len(result[p].manifests) :
           /\ result[p].manifests[j] \in DOMAIN s3Manifests
           /\ Len(s3Manifests[result[p].manifests[j]]) >= 1

C15_Witness ==
  /\ ManifestsCreated(1)
  /\ result[1].n = 2
  /\ Len(fileLocations) = 1
  /\ Len(result[1].manifests) = 1

\* C16: with N manifests returned, the file at index i (from 0) is entry
\* i div N (from 0) of manifest i mod N, and the sizes of any two manifests
\* differ by at most one.
C16_RoundRobin ==
  \A p \in Procs :
    ManifestsCreated(p) =>
      LET names == result[p].manifests
          N == Len(names)
      IN /\ \A i \in 0..(Len(fileLocations) - 1) :
              /\ Len(s3Manifests[names[(i % N) + 1]]) >= (i \div N) + 1
              /\ s3Manifests[names[(i % N) + 1]][(i \div N) + 1] = fileLocations[i + 1]
         /\ \A j, k \in 1..N :
              Len(s3Manifests[names[j]]) - Len(s3Manifests[names[k]]) \in {-1, 0, 1}

C16_Witness ==
  /\ ManifestsCreated(1)
  /\ Len(fileLocations) = 3
  /\ Len(result[1].manifests) = 2
  /\ Len(s3Manifests[result[1].manifests[1]]) = 2
  /\ Len(s3Manifests[result[1].manifests[2]]) = 1

\* C18: when CreateManifests has returned nil the buffer is empty, and a Pack
\* called after that gets no further than the isShipped check, returns
\* errBoxIsShipped and leaves the buffer and the location list as they were.
C18_NoPackAfterManifests ==
  \A p \in Procs :
    /\ (pc[p] = "idle" /\ result[p].op = "sbCreateManifests" /\ result[p].err = Nil)
         => bufferedData = <<>>
    /\ (hist[p].afterManifests /\ lv[p].op = "sbPack") => pc[p] = "sbPackCheck"
    /\ (hist[p].afterManifests /\ pc[p] = "idle" /\ result[p].op = "sbPack")
         => /\ result[p].err = ErrBoxIsShipped
            /\ bufferedData = pre[p].buf
            /\ fileLocations = pre[p].locs
            /\ s3Data = pre[p].data

C18_Witness ==
  /\ hist[1].afterManifests /\ pc[1] = "idle"
  /\ result[1].op = "sbPack" /\ result[1].err = ErrBoxIsShipped
  /\ Len(fileLocations) >= 1
  /\ pre[1].prev.op = "sbCreateManifests" /\ pre[1].prev.err = Nil

\* p's last two calls were CreateManifests with the same slug and n, the first
\* of which returned nil.
ManifestsCreatedTwice(p) ==
  /\ pc[p] = "idle"
  /\ result[p].op = "sbCreateManifests"
  /\ pre[p].prev.op = "sbCreateManifests" /\ pre[p].prev.err = Nil
  /\ result[p].slug = pre[p].prev.slug /\ result[p].n = pre[p].prev.n

Packed(p) == pc[p] = "idle" /\ result[p].op = "sbPack" /\ result[p].err = Nil

\* The buffer as the call found it, followed by the row and its newline.
Appended(p) == pre[p].buf \o result[p].row \o <<NL>>

\* C20 as stated: after every Pack that returned nil the buffer is what it was
\* before the call, followed by the row and one newline.
C20_BufferGrowsByRow ==
  \A p \in Procs : Packed(p) => bufferedData = Appended(p)

\* C20: after a Pack that returned nil, if the buffer with the row and its
\* newline appended does not exceed the buffer size then the buffer is exactly
\* that; otherwise those bytes are the contents of one new file, the last of
\* the location list, and the buffer is empty.
C20_BufferGrowsByRowOrFlushes ==
  \A p \in Procs :
    Packed(p) =>
      IF Len(Appended(p)) > BufferSize
      THEN /\ bufferedData = <<>>
           /\ Len(fileLocations) = Len(pre[p].locs) + 1
           /\ SubSeq(fileLocations, 1, Len(pre[p].locs)) = pre[p].locs
           /\ s3Data[fileLocations[Len(fileLocations)]] = Appended(p)
      ELSE /\ bufferedData = Appended(p)
           /\ fileLocations = pre[p].locs

C20_Witness ==
  /\ Packed(1)
  /\ pre[1].buf # <<>>
  /\ Len(Appended(1)) <= BufferSize
  /\ Len(bufferedData) = Len(pre[1].buf) + Len(result[1].row) + 1

\* A Pack by p on the Redbox has returned, its input not a JSON object, the box
\* not shipped when it was called.
PackedNonObject(p) ==
  /\ pc[p] = "idle"
  /\ result[p].op = "rbPack"
  /\ result[p].json \in JSONKinds \ {"object"}
  /\ ~hist[p].afterShip

\* C21: a Pack whose input is not a JSON object (malformed text, an array, a
\* scalar or null) returns errInvalidJSONInput and changes nothing: the buffer,
\* the location list, the flags, the bucket and the calls on the connection
\* are what they were.
C21_NonObjectRejected ==
  \A p \in Procs :
    PackedNonObject(p) =>
      /\ result[p].err = ErrInvalidJSONInput
      /\ bufferedData = pre[p].buf
      /\ fileLocations = pre[p].locs
      /\ s3Data = pre[p].data /\ s3Manifests = pre[p].man
      /\ ~shipped /\ ~shippingInProgress
      /\ dbCalls[p] = <<>>

\* The number of files p's Pack produced.
Flushes(p) == Len(fileLocations) - Len(pre[p].locs)

\* C22 as stated: every Pack of a row that with its newline is exactly
\* BufferSize bytes, the store not failing, produces one file.
C22_ExactFitFlushesEveryPack ==
  \A p \in Procs :
    (Packed(p) /\ Len(result[p].row) + 1 = BufferSize) => Flushes(p) = 1

\* C22: every Pack of a row that with its newline is longer than BufferSize,
\* the store not failing, produces exactly one file and empties the buffer, so
\* that N such calls produce N files; a row that with its newline is exactly
\* BufferSize bytes, packed into an empty buffer, produces no file and stays
\* in the buffer.
C22_OversizeFlushesEveryPack ==
  \A p \in Procs :
    Packed(p) =>
      /\ Len(result[p].row) + 1 > BufferSize => (Flushes(p) = 1 /\ bufferedData = <<>>)
      /\ (Len(result[p].row) + 1 = BufferSize /\ pre[p].buf = <<>>)
           => (Flushes(p) = 0 /\ Len(bufferedData) = BufferSize)

C22_Witness ==
  /\ Packed(1)
  /\ Len(result[1].row) + 1 > BufferSize
  /\ pre[1].prev.op = "sbPack" /\ pre[1].prev.err = Nil
  /\ Len(pre[1].prev.row) + 1 > BufferSize
  /\ Len(fileLocations) = 2

\* A Pack by p, called directly on the S3Box, has returned after the write of
\* the flush it triggered failed.
FlushFailed(p) == pc[p] = "idle" /\ result[p].op = "sbPack" /\ hist[p].writeFailed

\* C23 as stated: after a Pack whose flush failed, the buffer is longer than
\* before the call by the row and its newline.
C23_FailedFlushKeepsRecord ==
  \A p \in Procs :
    FlushFailed(p) => Len(bufferedData) = Len(pre[p].buf) + Len(result[p].row) + 1

\* C23: a Pack whose flush failed returns an error, the buffer is as long as
\* it was before the call and holds no byte of the row, no object has been
\* added to the bucket and the number of produced files is what it was.
C23_FailedFlushDropsRecord ==
  \A p \in Procs :
    FlushFailed(p) =>
      /\ result[p].err # Nil
      /\ Len(bufferedData) = Len(pre[p].buf)
      /\ Range(result[p].row) \cap Range(bufferedData) = {}
      /\ DOMAIN s3Data = DOMAIN pre[p].data
      /\ Len(fileLocations) = Len(pre[p].locs)

C23_Witness ==
  /\ FlushFailed(1)
  /\ Len(pre[1].buf) > 0
  /\ Len(pre[1].locs) > 0
  /\ Len(bufferedData) + Len(result[1].row) + 1 > BufferSize

\* Goroutine p is about to call writeToS3: in dumpToS3 with a buffer to write,
\* or in the upload loop of CreateManifests.
Uploading(p) ==
  \/ pc[p] = "sbDump" /\ Len(bufferedData) > 0
  \/ pc[p] = "cmUpload"

\* C24: no goroutine holds sb.mt while it uploads to the bucket, so that no
\* other goroutine waits for the mutex for the duration of an upload.
C24_NoLockAcrossUpload ==
  \A p \in Procs : Uploading(p) => sbMt # p

\* The sort ordinals above zero, one per column that has one.
PositiveOrds(cols) == {i \in 1..Len(cols) : cols[i].SortOrd > 0}

\* What the configuration must satisfy: schema and table given, a supported
\* granularity, at most one distribution key, supported column types, the
\* positive sort ordinals being 1..k without gap or repetition, and a
\* timestamp column designated that is a column of type timestamp.
ValidConfig(s) ==
  /\ s.Schema # "" /\ s.Table # ""
  /\ s.Granularity \in {1, 24}
  /\ Cardinality({i \in 1..Len(s.Columns) : s.Columns[i].DistKey}) <= 1
  /\ \A i \in 1..Len(s.Columns) : s.Columns[i].Type \in SupportedColumnTypes
  /\ {s.Columns[i].SortOrd : i \in PositiveOrds(s.Columns)}
       = 1..Cardinality(PositiveOrds(s.Columns))
  /\ s.DataTimestampColumn # ""
  /\ \E i \in 1..Len(s.Columns) :
       s.Columns[i].Name = s.DataTimestampColumn /\ s.Columns[i].Type = "timestamp"

\* C25: Validate returns nil if and only if schema and table are non-empty, the
\* granularity is a supported one, at most one column is a distribution key,
\* every column type is supported, the positive sort ordinals are exactly 1..k
\* with no gap and no duplicate, and a timestamp column is designated and names
\* a column of type timestamp.
C25_ValidateIff ==
  validated # "none" => (validated = Nil <=> ValidConfig(config))

C25_Witness ==
  /\ validated = Nil
  /\ Len(config.Columns) = 2
  /\ config.Columns[1].SortOrd = 2 /\ config.Columns[2].SortOrd = 1

\* The call of p has returned.
PipeReturned(p) == rpPc[p] = "idle" /\ rpResult[p].op # "none"

\* C26: a call that finds rp.SendingInProgress set when it makes its checks
\* returns ErrSendingInProgress, whichever method it is.
C26_RejectedDuringSend ==
  \A p \in Procs :
    (PipeReturned(p) /\ rpResult[p].during) => rpResult[p].err = ErrSendingInProgress

\* C27: after a Send that went past its checks and returned an error the box
\* is sealed.
C27_FailedSendStaysSealed ==
  \A p \in Procs :
    (PipeReturned(p) /\ rpResult[p].op = "Send"
       /\ rpResult[p].err \notin {Nil, ErrPipeIsClosed, ErrNoJobEndpoint, ErrSendingInProgress})
      => rpIsSealed

\* The Send of p has returned nil after posting a job.
Sent(p) ==
  /\ PipeReturned(p) /\ rpResult[p].op = "Send" /\ rpResult[p].err = Nil
  /\ Len(rpJobs) > rpPre[p].jobs

C29_ClosedIsTerminal ==
  \A p \in Procs :
    (PipeReturned(p) /\ rpPre[p].closed) =>
      /\ rpIsClosed
      /\ rpResult[p].op \in {"Pack", "Seal", "Unseal", "Send", "Reset"}
           => rpResult[p].err = ErrPipeIsClosed
      /\ rpResult[p].op \in {"Close", "CloseWithoutSending"} => rpResult[p].err = Nil

C29_Witness ==
  /\ PipeReturned(1) /\ rpPre[1].closed
  /\ rpPre[1].prev.op = "Close" /\ rpPre[1].prev.err = Nil
  /\ Len(rpJobs) = 1
  /\ rpResult[1].op = "Pack" /\ rpResult[1].err = ErrPipeIsClosed

\* C30: under concurrent Pack calls no two writes of a flush use the same key,
\* no row is in two writes, and when no call is executing every row whose Pack
\* returned nil is in the buffer or in a file of the location list.
C30_PackConcurrencySafe ==
  /\ \A i, j \in 1..Len(rpWrites) :
       i # j => /\ rpWrites[i].key # rpWrites[j].key
                /\ Range(rpWrites[i].data) \cap Range(rpWrites[j].data) \subseteq {NL}
  /\ (\A p \in Procs : rpPc[p] = "idle")
       => Range(rpOkPacked) \subseteq
            Range(rpBufferedData) \cup UNION {Range(rpS3[k]) : k \in Range(rpFileLocations)}

\* A Pack by p, called directly on the S3Box, has returned after it appended
\* its row (it was not turned away because the box had its manifests).
PackAppended(p) ==
  pc[p] = "idle" /\ result[p].op = "sbPack" /\ result[p].err # ErrBoxIsShipped

\* C31: a Pack flushes (it produces a file, or returns the error of the write
\* it attempted) if and only if the buffer with the row and its newline
\* appended is strictly longer than BufferSize; when it is exactly BufferSize
\* long nothing is written and the bytes stay in the buffer.
C31_FlushIffStrictlyGreater ==
  \A p \in Procs :
    PackAppended(p) =>
      /\ (Len(fileLocations) > Len(pre[p].locs) \/ hist[p].writeFailed)
           <=> Len(pre[p].buf) + Len(result[p].row) + 1 > BufferSize
      /\ Len(pre[p].buf) + Len(result[p].row) + 1 = BufferSize
           => /\ Len(bufferedData) = BufferSize
              /\ s3Data = pre[p].data
              /\ result[p].err = Nil

C31_Witness ==
  /\ PackAppended(1)
  /\ pre[1].buf # <<>>
  /\ Len(pre[1].buf) + Len(result[1].row) + 1 = BufferSize
  /\ Len(bufferedData) = BufferSize
  /\ fileLocations = <<>>

\* C32: the location list only grows at its end: no step removes, rewrites or
\* reorders an entry; the entry at index k (from 0) is the file numbered k, so
\* that the keys of a box are distinct, and no write replaces an object the
\* bucket already holds.
C32_LocationsAppendOnly ==
  [][/\ Len(fileLocations') >= Len(fileLocations)
     /\ SubSeq(fileLocations', 1, Len(fileLocations)) = fileLocations
     /\ \A k \in 1..Len(fileLocations') : fileLocations'[k] = k - 1
     /\ \A k \in DOMAIN s3Data : k \in DOMAIN s3Data' /\ s3Data'[k] = s3Data[k]]_vars

C32_Witness ==
  /\ Len(fileLocations) = 2
  /\ fileLocations[1] # fileLocations[2]
  /\ Cardinality(DOMAIN s3Data) = 2
  /\ \E p \in Procs : lv[p].op = "sbCreateManifests" /\ pc[p] = "cmUpload"

\* A CreateManifests by p, called directly on the S3Box, has returned the
\* error of a manifest upload (the final flush did not fail).
ManifestUploadFailed(p) ==
  /\ pc[p] = "idle"
  /\ result[p].op = "sbCreateManifests"
  /\ result[p].err = ErrWrite
  /\ ~hist[p].writeFailed

\* C33: a CreateManifests one of whose manifest uploads failed returns the
\* error and leaves in the bucket no manifest written by that call: the
\* manifest objects are what they were before the call.
C33_ManifestsAllOrNothing ==
  \A p \in Procs :
    ManifestUploadFailed(p) => (result[p].manifests = <<>> /\ s3Manifests = pre[p].man)

\* No Ship call is executing: every goroutine that called Ship has returned, or
\* has unwound through its deferred calls in a panic.
NoShipExecuting == \A p \in Procs : lv[p].op = "rbShip" => pc[p] \in {"idle", "panic"}

\* C34: whenever no Ship call is executing shippingInProgress is false: every
\* Ship that set the flag cleared it before it returned, whether CreateManifests
\* failed, there was nothing to ship, the transaction failed or the Ship
\* succeeded.
C34_FlagClearedOnEveryExit ==
  NoShipExecuting => ~shippingInProgress

C34_Witness ==
  /\ NoShipExecuting
  /\ result[1].op = "rbShip" /\ result[1].err = ErrDB
  /\ result[2].op = "rbShip" /\ result[2].err \in {ErrWrite, ErrNothingToShip, Nil}
  /\ ~shippingInProgress

\* A Ship by p has returned after the write of the final flush, made by
\* CreateManifests, failed.
FinalFlushFailed(p) == pc[p] = "idle" /\ result[p].op = "rbShip" /\ hist[p].writeFailed

\* C35: a Ship whose final flush failed returns the error of the write; no
\* manifest has been uploaded, nothing was called on the connection, the buffer
\* and the location list are what they were before the call, and neither the
\* S3Box nor the Redbox is marked shipped.
C35_FailedFinalFlush ==
  \A p \in Procs :
    FinalFlushFailed(p) =>
      /\ result[p].err = ErrWrite /\ result[p].manifests = <<>>
      /\ s3Manifests = pre[p].man /\ s3Data = pre[p].data
      /\ dbCalls[p] = <<>> /\ nCommits = 0
      /\ bufferedData = pre[p].buf /\ bufferedData # <<>>
      /\ fileLocations = pre[p].locs
      /\ ~isShipped /\ ~shipped

C35_Witness ==
  /\ FinalFlushFailed(1)
  /\ Len(fileLocations) >= 1
  /\ Len(bufferedData) = BufferSize

\* C36: over the life of a box, whatever the interleaving of Pack and Ship
\* calls, at most one transaction is committed and no file is loaded twice by
\* the committed transactions.
C36_AtMostOneCommit ==
  /\ nCommits <= 1
  /\ \A i, j \in 1..Len(loaded) : loaded[i] = loaded[j] => i = j

\* No Pack call is executing on the S3Box.
NoPackExecuting == \A p \in Procs : lv[p].op \in {"sbPack", "rbPack"} => pc[p] = "idle"

\* C37: whenever no Pack call is executing the buffer holds at most BufferSize
\* bytes: a Pack that returned, with nil or with an error, left it so, and so
\* does CreateManifests.
C37_BufferWithinThreshold ==
  NoPackExecuting => Len(bufferedData) <= BufferSize

C37_Witness ==
  /\ NoPackExecuting
  /\ pc[1] = "idle" /\ result[1].op = "sbPack" /\ result[1].err = ErrWrite
  /\ pc[2] = "idle" /\ result[2].op = "sbPack" /\ result[2].err = Nil
  /\ Len(bufferedData) = BufferSize

\* C38: on a box that has produced at least one file CreateManifests returns,
\* with a manifest list or an error, whatever nManifests it is given, 0 and
\* negative numbers included: no call of it ends in a panic.
C38_CreateManifestsAlwaysReturns ==
  \A p \in Procs :
    (lv[p].op = "sbCreateManifests" /\ Len(fileLocations) >= 1) => pc[p] # "panic"

\* C39: under concurrent Pack and Ship calls, the store and the connection
\* answering every call, every call that has started eventually returns: no
\* goroutine waits for sb.mt or rb.mt for ever.
C39_EveryCallReturns ==
  \A p \in Procs : (pc[p] # "idle") ~> (pc[p] = "idle")

C39_Witness ==
  /\ lv[1].op = "rbShip" /\ sbMt = 1 /\ pc[1] = "cmUpload"
  /\ lv[2].op = "rbPack" /\ pc[2] = "sbPackLock"
  /\ bufferedData = <<>> /\ Len(fileLocations) >= 1

\* C40: after a CloseWithoutSending that returned nil the pipe is closed and
\* holds nothing: its buffer and its location list are empty.
C40_CloseWithoutSendingEmpties ==
  \A p \in Procs :
    (PipeReturned(p) /\ rpResult[p].op = "CloseWithoutSending" /\ rpResult[p].err = Nil)
      => (rpIsClosed /\ rpBufferedData = <<>> /\ rpFileLocations = <<>>)

====
